---- MODULE Spec2Model ----
(***************************************************************************)
(* Model of the workflower song workflow: the Store (storage/storage.go),  *)
(* the Engine (workflow/workflow.go) and the review handler                *)
(* (handlers/handlers.go).                                                 *)
(*                                                                         *)
(* A WorkflowState is allocated once by StartWorkflow and from then on is  *)
(* shared BY POINTER between the Store's map, the background goroutines    *)
(* and every HTTP handler that obtained it with Store.Get.  The Store's    *)
(* lock guards the map only, so a field written by one goroutine is seen   *)
(* by the others at once, saved or not.  Each action below is therefore    *)
(* one access to the shared record (or one call that blocks on the         *)
(* network), and the goroutines interleave between them.                   *)
(***************************************************************************)
EXTENDS Integers, Sequences, FiniteSets, TLC

\* Number of POST /workflow/:id/submit requests a behaviour holds.
MaxSubmits == 2

WorkflowIds == {"wf1"}
UnknownId == "nope"
Slots == 1..MaxSubmits

Nil == <<>>
Ptr(v) == <<v>>
Deref(p) == p[1]

\* ---------------------------------------------------------------- values
TaskDescriptions == {"a rainy-evening lofi track"}
GenLyrics == "la la"
GenBrackets == "[Verse] la la"
GenProps ==
  [Style |-> "rock", VocalType |-> "male", LyricsMode |-> "custom",
   Weirdness |-> 5, StyleInfluence |-> "queen"]
GenPersonaInspo == [Persona |-> "bard", Inspo |-> "folk"]
LLMError == "API error: boom"
ParseErrorProps == "failed to parse suno properties: no valid JSON found in response"
ParseErrorPersona == "failed to parse persona/inspo: no valid JSON found in response"

\* zero value of storage.WorkflowState
ZeroState ==
  [Status |-> "", CreatedAt |-> 0, UpdatedAt |-> 0,
   TaskDescription |-> "", IsPremium |-> FALSE,
   Lyrics |-> "", LyricsWithBrackets |-> "",
   SunoProperties |-> Nil, PersonaInspo |-> Nil,
   EditedLyrics |-> "", EditedProperties |-> Nil,
   SunoJobID |-> "", SunoResult |-> "", ErrorMsg |-> ""]

\* no helper is being followed
NoCall == [fn |-> "", in |-> <<>>, out |-> <<>>]

VARIABLES
  wf,        \* heap: the WorkflowState each id's pointer refers to
  store,     \* Store.workflows: the ids present in the map
  clock,     \* time.Now(): advances at every reading
  prePc,     \* position of the runWorkflowSteps goroutine of each record
  preErr,    \* its pending (step, err) while inside handleError
  slotPc,    \* position of each submit request and of the goroutines it spawns
  slot,      \* locals of each submit request / goroutine
  llmCalls,  \* per record, the LLM calls made so far (in order)
  sunoCalls, \* per record, the CustomGenerate calls so far: request and reply
  waitCalls, \* per record, the WaitForCompletion calls so far: (id, reply) pairs
  notes,     \* per record, the notifier.Send calls so far, by kind of message
  reviews,   \* per record, what SubmitReview has answered and accepted so far
  wfc,       \* locals of a WaitForCompletion call followed poll by poll
  fcall      \* a helper or handler followed on its own: name, arguments, results

vars ==
  <<wf, store, clock, prePc, preErr, slotPc, slot, llmCalls, sunoCalls, waitCalls,
    notes, reviews, wfc, fcall>>

\* ---------------------------------------------------------------- Store
\* Store.Save: stamps UpdatedAt on the shared record and (re)inserts the pointer.
SaveAtNoStore(id, w, now) ==
  /\ wf' = [w EXCEPT ![id].UpdatedAt = now]
  /\ store' = store

SaveAt(id, w, now) ==
  /\ wf' = [w EXCEPT ![id].UpdatedAt = now]
  /\ store' = store \cup {id}

SaveStale(id, w) ==
  /\ SaveAt(id, w, 0)
  /\ clock' = clock + 1

Save(id, w) ==
  /\ SaveAt(id, w, clock)
  /\ clock' = clock + 1

\* Store.Get: the pointer held by the map, if any.
Get(id) == IF id \in store THEN Ptr(id) ELSE Nil

\* ---------------------------------------------------------------- Engine
\* Engine.StartWorkflow: allocate the record, Save it, go runWorkflowSteps.
StartWorkflow(id, task, isPremium) ==
  /\ prePc[id] = "none"
  /\ SaveAt(id,
            [wf EXCEPT ![id] =
               [ZeroState EXCEPT !.CreatedAt = clock, !.UpdatedAt = clock + 1,
                                 !.Status = "processing",
                                 !.TaskDescription = task,
                                 !.IsPremium = isPremium]],
            clock + 2)
  /\ clock' = clock + 3
  /\ prePc' = [prePc EXCEPT ![id] = "lyrics"]
  /\ UNCHANGED <<preErr, slotPc, slot, llmCalls, sunoCalls, waitCalls, notes, reviews, wfc>>

\* outcomes of llmClient.Chat for a plain-text step
ChatOutcomes(text) ==
  {[ok |-> TRUE, val |-> text, err |-> ""],
   [ok |-> FALSE, val |-> "", err |-> LLMError]}

\* outcomes of a step that parses the reply as JSON (strict, then extracted)
JsonOutcomes(val, parseErr) ==
  {[ok |-> TRUE, val |-> Ptr(val), err |-> ""],
   [ok |-> FALSE, val |-> Nil, err |-> LLMError],
   [ok |-> FALSE, val |-> Nil, err |-> parseErr]}

\* (a handleError that stores the error without the step's name)
HandleErrorMsgNoStep(id, step, err) == wf' = [wf EXCEPT ![id].ErrorMsg = err]

HandleErrorStatusKept(id) == wf' = wf

\* handleError, one access to the shared record at a time
HandleErrorStatus(id) == wf' = [wf EXCEPT ![id].Status = "failed"]
HandleErrorMsg(id, step, err) ==
  wf' = [wf EXCEPT ![id].ErrorMsg = step \o " failed: " \o err]

\* the tail every runWorkflowSteps action shares
PreFrame == UNCHANGED <<slotPc, slot, sunoCalls, waitCalls, reviews, wfc, fcall>>

PreGoto(id, pc) == prePc' = [prePc EXCEPT ![id] = pc]

PreFail(id, step, err) ==
  /\ PreGoto(id, "he_status")
  /\ preErr' = [preErr EXCEPT ![id] = <<step, err>>]

\* runWorkflowSteps line 68-72: state.Lyrics, err = generateLyrics(...)
PreLyrics(id) ==
  /\ prePc[id] = "lyrics"
  /\ \E r \in ChatOutcomes(GenLyrics) :
       /\ wf' = [wf EXCEPT ![id].Lyrics = r.val]
       /\ IF r.ok THEN PreGoto(id, "save1") /\ UNCHANGED preErr
                  ELSE PreFail(id, "lyrics generation", r.err)
  /\ llmCalls' = [llmCalls EXCEPT ![id] = Append(@, "lyrics")]
  /\ UNCHANGED <<store, clock, notes>>
  /\ PreFrame

\* line 76-80: state.SunoProperties, err = determineSunoProperties(...)
PreProperties(id) ==
  /\ prePc[id] = "props"
  /\ \E r \in JsonOutcomes(GenProps, ParseErrorProps) :
       /\ wf' = [wf EXCEPT ![id].SunoProperties = r.val]
       /\ IF r.ok THEN PreGoto(id, "save2") /\ UNCHANGED preErr
                  ELSE PreFail(id, "suno properties", r.err)
  /\ llmCalls' = [llmCalls EXCEPT ![id] = Append(@, "props")]
  /\ UNCHANGED <<store, clock, notes>>
  /\ PreFrame

\* line 84-88: state.LyricsWithBrackets, err = addBracketInstructions(...)
PreBrackets(id) ==
  /\ prePc[id] = "brackets"
  /\ \E r \in ChatOutcomes(GenBrackets) :
       /\ wf' = [wf EXCEPT ![id].LyricsWithBrackets = r.val]
       /\ IF r.ok THEN PreGoto(id, "save3") /\ UNCHANGED preErr
                  ELSE PreFail(id, "bracket instructions", r.err)
  /\ llmCalls' = [llmCalls EXCEPT ![id] = Append(@, "brackets")]
  /\ UNCHANGED <<store, clock, notes>>
  /\ PreFrame

\* (a pipeline that takes the premium step for every record)
AfterBracketsAlwaysPersona(w) == "persona"

\* (a pipeline that never takes the premium step)
AfterBracketsNoPremium(w) == "status5"

\* line 92: the premium gate
AfterBrackets(w) == IF w.IsPremium THEN "persona" ELSE "status5"

\* line 93-97: state.PersonaInspo, err = generatePersonaInspo(...)
PrePersona(id) ==
  /\ prePc[id] = "persona"
  /\ \E r \in JsonOutcomes(GenPersonaInspo, ParseErrorPersona) :
       /\ wf' = [wf EXCEPT ![id].PersonaInspo = r.val]
       /\ IF r.ok THEN PreGoto(id, "save4") /\ UNCHANGED preErr
                  ELSE PreFail(id, "persona/inspo", r.err)
  /\ llmCalls' = [llmCalls EXCEPT ![id] = Append(@, "persona")]
  /\ UNCHANGED <<store, clock, notes>>
  /\ PreFrame

\* lines 73, 81, 89, 98, 105: e.store.Save(state) and the pc that follows it
PreSaveNext(pc, w) ==
  CASE pc = "save1" -> "props"
    [] pc = "save2" -> "brackets"
    [] pc = "save3" -> AfterBrackets(w)
    [] pc = "save4" -> "status5"
    [] pc = "save5" -> "notify"

PreSave(id) ==
  /\ prePc[id] \in {"save1", "save2", "save3", "save4", "save5"}
  /\ Save(id, wf)
  /\ PreGoto(id, PreSaveNext(prePc[id], wf[id]))
  /\ UNCHANGED <<preErr, llmCalls, notes>>
  /\ PreFrame

\* line 102: state.Status = "awaiting_review"
PreStatus(id) ==
  /\ prePc[id] = "status5"
  /\ wf' = [wf EXCEPT ![id].Status = "awaiting_review"]
  /\ PreGoto(id, "edlyrics")
  /\ UNCHANGED <<store, clock, preErr, llmCalls, notes>>
  /\ PreFrame

\* line 103: state.EditedLyrics = state.LyricsWithBrackets
PreEditedLyrics(id) ==
  /\ prePc[id] = "edlyrics"
  /\ wf' = [wf EXCEPT ![id].EditedLyrics = wf[id].LyricsWithBrackets]
  /\ PreGoto(id, "edprops")
  /\ UNCHANGED <<store, clock, preErr, llmCalls, notes>>
  /\ PreFrame

\* line 104: state.EditedProperties = state.SunoProperties
PreEditedProperties(id) ==
  /\ prePc[id] = "edprops"
  /\ wf' = [wf EXCEPT ![id].EditedProperties = wf[id].SunoProperties]
  /\ PreGoto(id, "save5")
  /\ UNCHANGED <<store, clock, preErr, llmCalls, notes>>
  /\ PreFrame

\* (a notifier whose failure sends the caller into handleError)
AfterSendAborts(sendErr, next) == IF sendErr THEN "he_status" ELSE next

\* lines 112-115 and 250-252: the error of notifier.Send is logged and the caller
\* goes on as it does after a success
AfterSend(sendErr, next) == next

\* line 108-115: notifier.Send; its error is logged and dropped
PreNotify(id) ==
  /\ prePc[id] = "notify"
  /\ \E sendErr \in BOOLEAN :
       \* sendErr: slog.Warn and go on; otherwise go on
       /\ notes' = [notes EXCEPT ![id].review = @ + 1]
       /\ PreGoto(id, AfterSend(sendErr, "done"))
  /\ UNCHANGED <<wf, store, clock, preErr, llmCalls>>
  /\ PreFrame

\* handleError called from runWorkflowSteps (lines 70, 78, 86, 95)
PreHandleErrorStatus(id) ==
  /\ prePc[id] = "he_status"
  /\ HandleErrorStatus(id)
  /\ PreGoto(id, "he_msg")
  /\ UNCHANGED <<store, clock, preErr, llmCalls, notes>>
  /\ PreFrame

PreHandleErrorMsg(id) ==
  /\ prePc[id] = "he_msg"
  /\ HandleErrorMsg(id, preErr[id][1], preErr[id][2])
  /\ PreGoto(id, "he_save")
  /\ UNCHANGED <<store, clock, preErr, llmCalls, notes>>
  /\ PreFrame

PreHandleErrorSave(id) ==
  /\ prePc[id] = "he_save"
  /\ Save(id, wf)
  /\ PreGoto(id, "done")
  /\ UNCHANGED <<preErr, llmCalls, notes>>
  /\ PreFrame

\* ---------------------------------------------------------------- review
\* the review forms a POST /workflow/:id/submit may carry
RejectForm ==
  [action |-> "reject", edited_lyrics |-> "", style |-> "", vocal_type |-> "",
   weirdness |-> "", style_influence |-> "", persona |-> "", inspo |-> ""]
ApproveForm ==
  [action |-> "approve", edited_lyrics |-> "[Chorus] edited", style |-> "jazz",
   vocal_type |-> "", weirdness |-> "1.7", style_influence |-> "",
   persona |-> "", inspo |-> "blues"]
ReviewForms == {RejectForm, ApproveForm}

ZeroForm ==
  [action |-> "", edited_lyrics |-> "", style |-> "", vocal_type |-> "",
   weirdness |-> "", style_influence |-> "", persona |-> "", inspo |-> ""]

\* locals of a submit request and of the goroutines it spawns
ZeroSlot ==
  [id |-> UnknownId, req |-> ZeroForm,
   resp |-> 0,         \* HTTP status answered (0: none yet)
   props |-> Nil,      \* submitToSuno: props
   lyrics |-> "",      \* submitToSuno: lyrics
   audioID |-> "",     \* pollSunoCompletion: audioID
   audio |-> "",       \* pollSunoCompletion: audio.Status
   step |-> "", err |-> ""]   \* handleError arguments

\* strconv.ParseFloat(s, 64) with the error dropped; weirdness in tenths
ParseFloat(s) ==
  CASE s = "0.5" -> 5
    [] s = "1.7" -> 17
    [] OTHER -> 0

\* (a SubmitReview without its status test)
NoStatusTest(status) == TRUE

\* handlers.go line 215: the acceptance test of SubmitReview
IsAwaitingReview(status) == status = "awaiting_review"

SlotFrame == UNCHANGED <<prePc, preErr, llmCalls, wfc, fcall>>
TaskFrame == SlotFrame /\ UNCHANGED <<reviews, waitCalls>>
\* a request's locals with those of no further use zeroed
Keep(s) == [ZeroSlot EXCEPT !.id = s.id, !.resp = s.resp]

SlotGoto(h, pc) == slotPc' = [slotPc EXCEPT ![h] = pc]

\* the record of a request line 215 let through: counted by the action it
\* carried, with the Status values such requests have read
Accept(id, req, st) ==
  reviews' = [reviews EXCEPT
                ![id].approve = IF req.action = "reject" THEN @ ELSE @ + 1,
                ![id].reject = IF req.action = "reject" THEN @ + 1 ELSE @,
                ![id].read = @ \cup {st}]

\* the record of a request answered 400
Refuse(id) == reviews' = [reviews EXCEPT ![id].refused = @ + 1]

\* SubmitReview lines 207-226 up to the choice of the branch: Store.Get, the
\* status test and the action test.
InFlight(h) == slotPc[h] \notin {"idle", "exit"}

\* Requests are numbered in the order they arrive, and a request arrives while at
\* most one other request (with the goroutines it spawned) is still in flight:
\* the model follows the overlap of two submissions, not of more.
Arrives(h) ==
  /\ slotPc[h] = "idle"
  /\ IF h = 1 THEN TRUE ELSE slotPc[h - 1] # "idle"
  /\ \A g1, g2 \in Slots : (InFlight(g1) /\ InFlight(g2)) => g1 = g2

IsRejectAnyCase(action) == action \in {"reject", "Reject"}

\* SubmitReview line 222: if action == "reject"
IsReject(action) == action = "reject"

SubmitReviewCheck(h, id, req) ==
  /\ Arrives(h)
  /\ IF Get(id) = Nil
       THEN /\ slot' = [slot EXCEPT ![h].id = id, ![h].resp = 404]
            /\ SlotGoto(h, "exit")
            /\ UNCHANGED reviews
     ELSE IF ~IsAwaitingReview(wf[id].Status)
       THEN /\ slot' = [slot EXCEPT ![h].id = id, ![h].resp = 400]
            /\ SlotGoto(h, "exit")
            /\ Refuse(id)
     ELSE /\ slot' = [slot EXCEPT ![h].id = id, ![h].req = req]
          /\ SlotGoto(h, IF IsReject(req.action) THEN "rej_status" ELSE "ed_lyrics")
          /\ Accept(id, req, wf[id].Status)
  /\ UNCHANGED <<wf, store, clock, sunoCalls, waitCalls, notes>>
  /\ SlotFrame

\* A caller other than SubmitReview that holds a stored record and calls
\* Engine.ApproveWorkflow(ctx, state) itself: the call runs line 176 at once,
\* whatever the Status is (workflow.go 175-183 holds no test).
DirectApprove(h, id) ==
  /\ Arrives(h)
  /\ Get(id) # Nil
  /\ wf' = [wf EXCEPT ![id].Status = "approved"]
  /\ slot' = [slot EXCEPT ![h].id = id]
  /\ SlotGoto(h, "ap_save")
  /\ Accept(id, ApproveForm, wf[id].Status)
  /\ UNCHANGED <<store, clock, sunoCalls, waitCalls, notes>>
  /\ SlotFrame

\* The same for Engine.RejectWorkflow(state): line 257 at once (workflow.go 256-259).
DirectReject(h, id) ==
  /\ Arrives(h)
  /\ Get(id) # Nil
  /\ wf' = [wf EXCEPT ![id].Status = "rejected"]
  /\ slot' = [slot EXCEPT ![h].id = id]
  /\ SlotGoto(h, "rej_save")
  /\ Accept(id, RejectForm, wf[id].Status)
  /\ UNCHANGED <<store, clock, sunoCalls, waitCalls, notes>>
  /\ SlotFrame

\* RejectWorkflow line 257: state.Status = "rejected"
RejectStatus(h) ==
  /\ slotPc[h] = "rej_status"
  /\ wf' = [wf EXCEPT ![slot[h].id].Status = "rejected"]
  /\ SlotGoto(h, "rej_save")
  /\ UNCHANGED <<store, clock, slot, sunoCalls, notes>>
  /\ TaskFrame

\* RejectWorkflow line 258 and the redirect of SubmitReview line 224
RejectSave(h) ==
  /\ slotPc[h] = "rej_save"
  /\ Save(slot[h].id, wf)
  /\ slot' = [slot EXCEPT ![h] = [Keep(@) EXCEPT !.resp = 302]]
  /\ SlotGoto(h, "exit")
  /\ UNCHANGED <<sunoCalls, notes>>
  /\ TaskFrame

\* SubmitReview line 229: wf.EditedLyrics = form
EditLyrics(h) ==
  /\ slotPc[h] = "ed_lyrics"
  /\ wf' = [wf EXCEPT ![slot[h].id].EditedLyrics = slot[h].req.edited_lyrics]
  /\ SlotGoto(h, "ed_props")
  /\ UNCHANGED <<store, clock, slot, sunoCalls, notes>>
  /\ TaskFrame

\* SubmitReview lines 232-238: the properties rebuilt from the form (LyricsMode
\* is not among the fields set), then the test of lines 241-244
FormProperties(req) ==
  [Style |-> req.style, VocalType |-> req.vocal_type, LyricsMode |-> "",
   Weirdness |-> ParseFloat(req.weirdness), StyleInfluence |-> req.style_influence]

EditProperties(h) ==
  /\ slotPc[h] = "ed_props"
  /\ wf' = [wf EXCEPT ![slot[h].id].EditedProperties = Ptr(FormProperties(slot[h].req))]
  /\ SlotGoto(h, IF wf[slot[h].id].IsPremium
                    /\ (slot[h].req.persona # "" \/ slot[h].req.inspo # "")
                 THEN "ed_persona" ELSE "save_ed")
  /\ UNCHANGED <<store, clock, slot, sunoCalls, notes>>
  /\ TaskFrame

\* SubmitReview lines 245-248: wf.PersonaInspo = form
EditPersona(h) ==
  /\ slotPc[h] = "ed_persona"
  /\ wf' = [wf EXCEPT ![slot[h].id].PersonaInspo =
              Ptr([Persona |-> slot[h].req.persona, Inspo |-> slot[h].req.inspo])]
  /\ SlotGoto(h, "save_ed")
  /\ UNCHANGED <<store, clock, slot, sunoCalls, notes>>
  /\ TaskFrame

\* SubmitReview line 252: h.store.Save(wf)
EditSave(h) ==
  /\ slotPc[h] = "save_ed"
  /\ Save(slot[h].id, wf)
  /\ slot' = [slot EXCEPT ![h] = Keep(@)]
  /\ SlotGoto(h, "ap_status")
  /\ UNCHANGED <<sunoCalls, notes>>
  /\ TaskFrame

\* ApproveWorkflow line 176: state.Status = "approved"
ApproveStatus(h) ==
  /\ slotPc[h] = "ap_status"
  /\ wf' = [wf EXCEPT ![slot[h].id].Status = "approved"]
  /\ SlotGoto(h, "ap_save")
  /\ UNCHANGED <<store, clock, slot, sunoCalls, notes>>
  /\ TaskFrame

\* ApproveWorkflow lines 177-182: Save, go submitToSuno; SubmitReview redirects
ApproveSave(h) ==
  /\ slotPc[h] = "ap_save"
  /\ Save(slot[h].id, wf)
  /\ slot' = [slot EXCEPT ![h].resp = 302]
  /\ SlotGoto(h, "sub_props")
  /\ UNCHANGED <<sunoCalls, notes>>
  /\ TaskFrame

\* ---------------------------------------------------------------- post-approval
\* truncateString (workflow.go 271-276)
truncateString(s, maxLen) ==
  IF Len(s) <= maxLen THEN s ELSE SubSeq(s, 1, maxLen) \o "..."

\* (a tags string that always appends the vocal type)
BuildTagsAlwaysJoined(props) == props.Style \o ", " \o props.VocalType

\* submitToSuno lines 200-204: the tags string
BuildTags(props) ==
  IF props.VocalType # "" THEN props.Style \o ", " \o props.VocalType
                          ELSE props.Style

\* (a request whose prompt is the lyrics as first generated)
BuildRequestRawLyrics(w, props, lyrics) ==
  [Prompt |-> w.Lyrics, Tags |-> props.Style,
   Title |-> w.TaskDescription, MakeInstrumental |-> FALSE, WaitAudio |-> FALSE]

\* submitToSuno lines 207-213: the CustomGenerateRequest
BuildRequest(w, props, lyrics) ==
  [Prompt |-> lyrics, Tags |-> BuildTags(props),
   Title |-> truncateString(w.TaskDescription, 50),
   MakeInstrumental |-> FALSE, WaitAudio |-> FALSE]

\* what CustomGenerate may return: an error, or a list of job ids (two variations
\* per request)
SunoSubmitError == "API error (status 503): unavailable"
SubmitOutcomes ==
  {[err |-> SunoSubmitError, ids |-> <<>>],
   [err |-> "", ids |-> <<>>],
   [err |-> "", ids |-> <<"job1", "job2">>]}

\* what WaitForCompletion(ctx, audioID, 5s, 60) may return: the job at its first
\* ready status, or an error (a failed read, or the retries used up)
WaitOutcomes ==
  {[err |-> "", status |-> "streaming"],
   [err |-> "", status |-> "complete"],
   [err |-> "failed to get audio info: API error (status 500): boom", status |-> ""],
   [err |-> "max retries exceeded waiting for audio completion", status |-> ""]}

\* (locals are zeroed at their last use)
SlotFail(h, step, err) ==
  /\ slot' = [slot EXCEPT ![h] = [Keep(@) EXCEPT !.step = step, !.err = err]]
  /\ SlotGoto(h, "he_status")

\* submitToSuno lines 187-190: props := state.EditedProperties, or SunoProperties
SubmitProps(h) ==
  /\ slotPc[h] = "sub_props"
  /\ LET w == wf[slot[h].id]
         props == IF w.EditedProperties = Nil THEN w.SunoProperties
                                              ELSE w.EditedProperties
     IN /\ slot' = [slot EXCEPT ![h].props = props]
        /\ SlotGoto(h, "sub_lyrics")
  /\ UNCHANGED <<wf, store, clock, sunoCalls, notes>>
  /\ TaskFrame

\* submitToSuno lines 192-195: lyrics := state.EditedLyrics, or LyricsWithBrackets
\* (line 201 dereferences props: a nil props ends the process)
SubmitLyrics(h) ==
  /\ slotPc[h] = "sub_lyrics"
  /\ LET w == wf[slot[h].id]
         lyrics == IF w.EditedLyrics = "" THEN w.LyricsWithBrackets
                                          ELSE w.EditedLyrics
     IN /\ slot' = [slot EXCEPT ![h].lyrics = lyrics]
        /\ SlotGoto(h, IF slot[h].props = Nil THEN "panic" ELSE "sub_call")
  /\ UNCHANGED <<wf, store, clock, sunoCalls, notes>>
  /\ TaskFrame

\* submitToSuno lines 207-231: the CustomGenerate call and the branch on its result
SubmitCall(h) ==
  /\ slotPc[h] = "sub_call"
  /\ \E r \in SubmitOutcomes :
       /\ sunoCalls' = [sunoCalls EXCEPT ![slot[h].id] =
             Append(@, [req |-> BuildRequest(wf[slot[h].id], Deref(slot[h].props),
                                             slot[h].lyrics),
                        err |-> r.err, ids |-> r.ids])]
       /\ IF r.err # "" THEN SlotFail(h, "suno submission", r.err)
          ELSE IF Len(r.ids) > 0
            THEN /\ slot' = [slot EXCEPT ![h] = [Keep(@) EXCEPT !.audioID = r.ids[1]]]
                 /\ SlotGoto(h, "sub_job")
            ELSE SlotFail(h, "suno submission", "no results returned from Suno")
  /\ UNCHANGED <<wf, store, clock, notes>>
  /\ TaskFrame

\* line 223: state.SunoJobID = results[0].ID
SubmitJob(h) ==
  /\ slotPc[h] = "sub_job"
  /\ wf' = [wf EXCEPT ![slot[h].id].SunoJobID = slot[h].audioID]
  /\ SlotGoto(h, "sub_status")
  /\ UNCHANGED <<store, clock, slot, sunoCalls, notes>>
  /\ TaskFrame

\* line 224: state.Status = "generating"
SubmitStatus(h) ==
  /\ slotPc[h] = "sub_status"
  /\ wf' = [wf EXCEPT ![slot[h].id].Status = "generating"]
  /\ SlotGoto(h, "sub_save")
  /\ UNCHANGED <<store, clock, slot, sunoCalls, notes>>
  /\ TaskFrame

\* lines 225-228: Save, go pollSunoCompletion
SubmitSave(h) ==
  /\ slotPc[h] = "sub_save"
  /\ Save(slot[h].id, wf)
  /\ SlotGoto(h, "poll")
  /\ UNCHANGED <<slot, sunoCalls, notes>>
  /\ TaskFrame

\* pollSunoCompletion lines 237-241: the WaitForCompletion call and its error test
PollWait(h) ==
  /\ slotPc[h] = "poll"
  /\ \E r \in WaitOutcomes :
       /\ waitCalls' = [waitCalls EXCEPT ![slot[h].id] =
             @ \cup {[id |-> slot[h].audioID, err |-> r.err, status |-> r.status]}]
       /\ IF r.err # "" THEN SlotFail(h, "suno completion", r.err)
          ELSE /\ slot' = [slot EXCEPT ![h] = [Keep(@) EXCEPT !.audio = r.status]]
               /\ SlotGoto(h, "poll_result")
  /\ UNCHANGED <<wf, store, clock, sunoCalls, notes, reviews>>
  /\ SlotFrame

\* pollSunoCompletion line 243: state.SunoResult = audio.Status
PollResult(h) ==
  /\ slotPc[h] = "poll_result"
  /\ wf' = [wf EXCEPT ![slot[h].id].SunoResult = slot[h].audio]
  /\ slot' = [slot EXCEPT ![h] = Keep(@)]
  /\ SlotGoto(h, "poll_status")
  /\ UNCHANGED <<store, clock, sunoCalls, notes>>
  /\ TaskFrame

\* line 244: state.Status = "completed"
PollStatus(h) ==
  /\ slotPc[h] = "poll_status"
  /\ wf' = [wf EXCEPT ![slot[h].id].Status = "completed"]
  /\ SlotGoto(h, "poll_save")
  /\ UNCHANGED <<store, clock, slot, sunoCalls, notes>>
  /\ TaskFrame

\* line 245: e.store.Save(state)
PollSave(h) ==
  /\ slotPc[h] = "poll_save"
  /\ Save(slot[h].id, wf)
  /\ SlotGoto(h, "poll_notify")
  /\ UNCHANGED <<slot, sunoCalls, notes>>
  /\ TaskFrame

\* lines 248-252: notifier.Send; its error is logged and dropped
PollNotify(h) ==
  /\ slotPc[h] = "poll_notify"
  /\ \E sendErr \in BOOLEAN :
       \* sendErr: slog.Warn and return; otherwise return
       /\ notes' = [notes EXCEPT ![slot[h].id].completed = @ + 1]
       /\ SlotGoto(h, AfterSend(sendErr, "exit"))
  /\ slot' = [slot EXCEPT ![h] = Keep(@)]
  /\ UNCHANGED <<wf, store, clock, sunoCalls>>
  /\ TaskFrame

\* handleError called from submitToSuno / pollSunoCompletion (217, 230, 239)
SlotHandleErrorStatus(h) ==
  /\ slotPc[h] = "he_status"
  /\ HandleErrorStatus(slot[h].id)
  /\ SlotGoto(h, "he_msg")
  /\ UNCHANGED <<store, clock, slot, sunoCalls, notes>>
  /\ TaskFrame

SlotHandleErrorMsg(h) ==
  /\ slotPc[h] = "he_msg"
  /\ HandleErrorMsg(slot[h].id, slot[h].step, slot[h].err)
  /\ slot' = [slot EXCEPT ![h] = Keep(@)]
  /\ SlotGoto(h, "he_save")
  /\ UNCHANGED <<store, clock, sunoCalls, notes>>
  /\ TaskFrame

SlotHandleErrorSave(h) ==
  /\ slotPc[h] = "he_save"
  /\ Save(slot[h].id, wf)
  /\ SlotGoto(h, "exit")
  /\ slot' = [slot EXCEPT ![h] = Keep(@)]
  /\ UNCHANGED <<sunoCalls, notes>>
  /\ TaskFrame

\* ---------------------------------------------------------------- WaitForCompletion
\* locals of Client.WaitForCompletion (suno client, lines 359-385)
ZeroWfc ==
  [pc |-> "none", maxRetries |-> 0, i |-> 0,
   ctx |-> "live",     \* the context: live or cancelled
   reads |-> <<>>,     \* what each read of the job state brought back, in order
   ret |-> "", err |-> ""]   \* the return values: audio.Status and the error

\* the largest maxRetries a followed call is given
MaxPolls == 3

\* job statuses that are not ready, and those that are (line 377)
PendingStatuses == {"submitted", "queued"}
ReadyStatuses == {"streaming", "complete"}
ErrCtx == "context canceled"
ErrGet == "failed to get audio info: failed to send request"
ErrNoAudio == "no audio found with ID: job1"
ErrMaxRetries == "max retries exceeded waiting for audio completion"

\* what one c.Get(ctx, id, 0) brings back.  With the context already cancelled the
\* HTTP client fails the request without sending it: nothing is read.  Otherwise
\* the MGS is read: a failed request, an empty list, or the job with its status.
GetOutcomes(ctx) ==
  IF ctx = "cancelled" THEN {[read |-> <<>>, err |-> ErrGet]}
  ELSE {[read |-> <<"error">>, err |-> ErrGet], [read |-> <<"empty">>, err |-> ""]}
       \cup {[read |-> <<st>>, err |-> ""] : st \in PendingStatuses \cup ReadyStatuses}

\* (a loop that runs once more than maxRetries allows)
LoopTestInclusive(i, maxRetries) == i <= maxRetries

\* line 360: the loop test
LoopTest(i, maxRetries) == i < maxRetries

WfcFrame ==
  UNCHANGED <<wf, store, clock, prePc, preErr, slotPc, slot, llmCalls, sunoCalls,
              waitCalls, notes, reviews, fcall>>

WfcReturn(status, err) == wfc' = [wfc EXCEPT !.pc = "return", !.ret = status, !.err = err]

\* the caller's context is cancelled (at any moment before the call returns)
WfcCancel ==
  /\ wfc.pc \notin {"none", "return"}
  /\ wfc.ctx = "live"
  /\ wfc' = [wfc EXCEPT !.ctx = "cancelled"]
  /\ WfcFrame

\* line 360 and line 384: for i < maxRetries, else the max-retries error
WfcTest ==
  /\ wfc.pc = "test"
  /\ IF LoopTest(wfc.i, wfc.maxRetries)
       THEN wfc' = [wfc EXCEPT !.pc = "select"]
       ELSE WfcReturn("", ErrMaxRetries)
  /\ WfcFrame

\* lines 361-365: select on ctx.Done() with a default
WfcSelect ==
  /\ wfc.pc = "select"
  /\ IF wfc.ctx = "cancelled"
       THEN WfcReturn("", ErrCtx)
       ELSE wfc' = [wfc EXCEPT !.pc = "get"]
  /\ WfcFrame

\* lines 367-379: c.Get and the tests on what it brought back
WfcGet ==
  /\ wfc.pc = "get"
  /\ \E r \in GetOutcomes(wfc.ctx) :
       LET reads == wfc.reads \o r.read IN
       IF r.err # ""
         THEN wfc' = [wfc EXCEPT !.pc = "return", !.err = r.err, !.reads = reads]
       ELSE IF r.read = <<"empty">>
         THEN wfc' = [wfc EXCEPT !.pc = "return", !.err = ErrNoAudio, !.reads = reads]
       ELSE IF r.read[1] \in ReadyStatuses
         THEN wfc' = [wfc EXCEPT !.pc = "return", !.ret = r.read[1], !.reads = reads]
       ELSE wfc' = [wfc EXCEPT !.pc = "sleep", !.reads = reads]
  /\ WfcFrame

\* line 381 and the i++ of line 360
WfcSleep ==
  /\ wfc.pc = "sleep"
  /\ wfc' = [wfc EXCEPT !.pc = "test", !.i = @ + 1]
  /\ WfcFrame

\* ---------------------------------------------------------------- Spec
Init ==
  /\ wf = [id \in WorkflowIds |-> ZeroState]
  /\ store = {}
  /\ clock = 1
  /\ prePc = [id \in WorkflowIds |-> "none"]
  /\ preErr = [id \in WorkflowIds |-> <<"", "">>]
  /\ slotPc = [h \in Slots |-> "idle"]
  /\ slot = [h \in Slots |-> ZeroSlot]
  /\ llmCalls = [id \in WorkflowIds |-> <<>>]
  /\ sunoCalls = [id \in WorkflowIds |-> <<>>]
  /\ waitCalls = [id \in WorkflowIds |-> {}]
  /\ wfc = ZeroWfc
  /\ fcall = NoCall
  /\ notes = [id \in WorkflowIds |-> [review |-> 0, completed |-> 0, error |-> 0]]
  /\ reviews = [id \in WorkflowIds |-> [approve |-> 0, reject |-> 0, refused |-> 0, read |-> {}]]

Start ==
  \E id \in WorkflowIds, task \in TaskDescriptions, isPremium \in BOOLEAN :
    StartWorkflow(id, task, isPremium) /\ UNCHANGED fcall

\* the steps of the runWorkflowSteps goroutine of record id
PreReview(id) ==
  \/ PreLyrics(id)
  \/ PreProperties(id)
  \/ PreBrackets(id)
  \/ PrePersona(id)
  \/ PreSave(id)
  \/ PreStatus(id)
  \/ PreEditedLyrics(id)
  \/ PreEditedProperties(id)
  \/ PreNotify(id)
  \/ PreHandleErrorStatus(id)
  \/ PreHandleErrorMsg(id)
  \/ PreHandleErrorSave(id)

\* the steps of an accepted submit request and of the goroutines it spawns
Review(h) ==
  \/ RejectStatus(h)
  \/ RejectSave(h)
  \/ EditLyrics(h)
  \/ EditProperties(h)
  \/ EditPersona(h)
  \/ EditSave(h)
  \/ ApproveStatus(h)
  \/ ApproveSave(h)
  \/ SubmitProps(h)
  \/ SubmitLyrics(h)
  \/ SubmitCall(h)
  \/ SubmitJob(h)
  \/ SubmitStatus(h)
  \/ SubmitSave(h)
  \/ PollWait(h)
  \/ PollResult(h)
  \/ PollStatus(h)
  \/ PollSave(h)
  \/ PollNotify(h)
  \/ SlotHandleErrorStatus(h)
  \/ SlotHandleErrorMsg(h)
  \/ SlotHandleErrorSave(h)

SubmitReview(h, ids) ==
  \E id \in ids, req \in ReviewForms : SubmitReviewCheck(h, id, req)

\* The server: records are started, reviewed over HTTP, and run in the background.
Next ==
  \/ Start
  \/ \E id \in WorkflowIds : PreReview(id)
  \/ \E h \in Slots : SubmitReview(h, WorkflowIds) \/ Review(h)

Spec == Init /\ [][Next]_vars

\* The Engine as a library: besides the HTTP route, one caller that invokes the
\* Engine's ApproveWorkflow / RejectWorkflow entry points itself.
NextDirect ==
  \/ Start
  \/ \E id \in WorkflowIds : PreReview(id)
  \/ SubmitReview(1, WorkflowIds \cup {UnknownId}) \/ Review(1)
  \/ \E id \in WorkflowIds : DirectApprove(1, id) \/ DirectReject(1, id)

SpecDirect == Init /\ [][NextDirect]_vars

\* One WaitForCompletion call followed from its entry, for every maxRetries up to
\* MaxPolls; the goroutine that runs it is scheduled until it returns, while the
\* cancellation of its context is up to the caller.
InitWait ==
  /\ wf = [id \in WorkflowIds |-> ZeroState]
  /\ store = {}
  /\ clock = 1
  /\ prePc = [id \in WorkflowIds |-> "none"]
  /\ preErr = [id \in WorkflowIds |-> <<"", "">>]
  /\ slotPc = [h \in Slots |-> "idle"]
  /\ slot = [h \in Slots |-> ZeroSlot]
  /\ llmCalls = [id \in WorkflowIds |-> <<>>]
  /\ sunoCalls = [id \in WorkflowIds |-> <<>>]
  /\ waitCalls = [id \in WorkflowIds |-> {}]
  /\ notes = [id \in WorkflowIds |-> [review |-> 0, completed |-> 0, error |-> 0]]
  /\ reviews = [id \in WorkflowIds |-> [approve |-> 0, reject |-> 0, refused |-> 0, read |-> {}]]
  /\ \E m \in 0..MaxPolls : wfc = [ZeroWfc EXCEPT !.pc = "test", !.maxRetries = m]
  /\ fcall = NoCall

WfcStep == WfcTest \/ WfcSelect \/ WfcGet \/ WfcSleep

NextWait == WfcCancel \/ WfcStep

SpecWait == InitWait /\ [][NextWait]_vars /\ WF_vars(WfcStep)

\* ---------------------------------------------------------------- properties
Terminal == {"completed", "failed", "rejected"}
NonTerminal == {"processing", "awaiting_review", "approved", "generating"}
ReviewedOrLater == {"awaiting_review", "approved", "generating", "completed", "rejected"}

AllowedEdges ==
  {<<"processing", "awaiting_review">>, <<"awaiting_review", "approved">>,
   <<"approved", "generating">>, <<"generating", "completed">>,
   <<"awaiting_review", "rejected">>}
  \cup {<<s, "failed">> : s \in NonTerminal}

\* positions at which a goroutine spawned for a submit request is running
SubmitTaskPcs == {"sub_props", "sub_lyrics", "sub_call", "sub_job", "sub_status", "sub_save"}
PollTaskPcs == {"poll", "poll_result", "poll_status", "poll_save", "poll_notify"}
ErrorPcs == {"he_status", "he_msg", "he_save"}

PreReviewRunning(id) == prePc[id] \notin {"none", "done"}
PostApprovalTasks(id) ==
  {h \in Slots : slot[h].id = id /\ slotPc[h] \in SubmitTaskPcs \cup PollTaskPcs \cup ErrorPcs}
ActiveTasks(id) ==
  (IF PreReviewRunning(id) THEN 1 ELSE 0) + Cardinality(PostApprovalTasks(id))

\* C1: CustomGenerate is called for a record only after a submit request carrying
\* an approval passed the test of SubmitReview, and every request that passed it read
\* the Status awaiting_review: no call is made without such an approval.
C1_MgsOnlyAfterApproval ==
  \A id \in WorkflowIds :
    Len(sunoCalls[id]) > 0 =>
      /\ Len(sunoCalls[id]) <= reviews[id].approve
      /\ reviews[id].read \subseteq {"awaiting_review"}

C1_Witness ==
  \E id \in WorkflowIds : reviews[id].approve > 0 /\ Len(sunoCalls[id]) > 0

\* C2: every change of the Status of a stored record follows an allowed edge.
C2_AllowedEdgesOnly ==
  [][\A id \in WorkflowIds :
       (id \in store /\ wf'[id].Status # wf[id].Status)
         => <<wf[id].Status, wf'[id].Status>> \in AllowedEdges]_vars

\* C3: once a record is completed, failed or rejected, its Status never changes.
C3_TerminalIsFinal ==
  [][\A id \in WorkflowIds :
       wf[id].Status \in Terminal => wf'[id].Status = wf[id].Status]_vars

\* C4: an approve or reject arriving for a stored record whose Status is not
\* awaiting_review is refused (400), changes no field of the record and starts no
\* task, through the HTTP route and through the Engine's entry points alike.
C4_WrongStateRefused ==
  [][\A h \in Slots :
       (/\ slotPc[h] = "idle" /\ slotPc'[h] # "idle"
        /\ slot'[h].id \in store
        /\ wf[slot'[h].id].Status # "awaiting_review")
         => (slot'[h].resp = 400 /\ slotPc'[h] = "exit" /\ wf' = wf)]_vars

\* C5: of two overlapping review submissions for a record at most one takes
\* effect; the other is refused because the Status is no longer awaiting_review.
C5_AtMostOneTakesEffect ==
  \A id \in WorkflowIds : reviews[id].approve + reviews[id].reject <= 1

\* C6: once a reject has been accepted and carried out, the record is rejected and
\* stays so, and CustomGenerate is never called for it.
C6_RejectedNeverSubmitted ==
  \A id \in WorkflowIds :
    (/\ reviews[id].reject > 0
     /\ \A h \in Slots : slot[h].id = id => slotPc[h] \notin {"rej_status", "rej_save"})
      => (wf[id].Status = "rejected" /\ Len(sunoCalls[id]) = 0)

\* C7: a record has at most one running background task (pre-review, submission
\* or polling) at any instant.
C7_OneActiveTask == \A id \in WorkflowIds : ActiveTasks(id) <= 1

\* C8: a record read through the Store with Status awaiting_review or later has
\* EditedLyrics and EditedProperties populated.
C8_EditedSetOnceAwaiting ==
  \A id \in store :
    wf[id].Status \in ReviewedOrLater =>
      (wf[id].EditedProperties # Nil /\ wf[id].EditedLyrics # "")

\* C9: the Save that closes the pre-review stage (line 105) stores a record whose
\* EditedLyrics equals LyricsWithBrackets and whose EditedProperties equals
\* SunoProperties.
C9_EditedEqualGeneratedAtSave ==
  [][\A id \in WorkflowIds :
       (prePc[id] = "save5" /\ prePc'[id] = "notify")
         => (/\ wf'[id].EditedLyrics = wf'[id].LyricsWithBrackets
             /\ wf'[id].EditedProperties = wf'[id].SunoProperties)]_vars

\* C10: a record whose Status is awaiting_review has SunoProperties set and
\* LyricsWithBrackets equal to the reply of the bracket-cue call, and, when
\* IsPremium, PersonaInspo set.
C10_GeneratedSetWhenAwaiting ==
  \A id \in WorkflowIds :
    wf[id].Status = "awaiting_review" =>
      /\ wf[id].SunoProperties # Nil
      /\ \E k \in 1..Len(llmCalls[id]) : llmCalls[id][k] = "brackets"
      /\ wf[id].LyricsWithBrackets = GenBrackets
      /\ wf[id].IsPremium => wf[id].PersonaInspo # Nil

C10_Witness ==
  \E id \in WorkflowIds :
    /\ wf[id].Status = "awaiting_review"
    /\ wf[id].IsPremium
    /\ wf[id].PersonaInspo = Ptr(GenPersonaInspo)

\* the Save of line 105 (the one that stores Status awaiting_review) has run
SavedAwaitingReview(id) == prePc[id] \in {"notify", "done"} /\ preErr[id] = <<"", "">>

\* C11: the Save that stores Status awaiting_review comes before the review
\* notification is attempted and before any approve or reject is accepted.
C11_SavedBeforeAccepted ==
  \A id \in WorkflowIds :
    (notes[id].review > 0 \/ reviews[id].approve + reviews[id].reject > 0)
      => SavedAwaitingReview(id)

\* the LLM calls of runWorkflowSteps in program order, and the step name each
\* passes to handleError (lines 70, 78, 86, 95)
StepOrder == <<"lyrics", "props", "brackets", "persona">>
StepName(call) ==
  CASE call = "lyrics" -> "lyrics generation"
    [] call = "props" -> "suno properties"
    [] call = "brackets" -> "bracket instructions"
    [] call = "persona" -> "persona/inspo"
IsPrefix(s, t) == Len(s) <= Len(t) /\ \A k \in 1..Len(s) : s[k] = t[k]
PreFailed(id) == preErr[id] # <<"", "">>

\* C12: the LLM calls of a record are made in the order lyrics, properties,
\* bracket cues, persona/inspo; once a step has failed, it is the last call made,
\* the record is never awaiting_review, no review notification is sent, and after
\* handleError the record is failed with ErrorMsg "<step> failed: <err>".
C12_StepsInOrderFailureStops ==
  \A id \in WorkflowIds :
    /\ IsPrefix(llmCalls[id], StepOrder)
    /\ PreFailed(id) =>
         /\ preErr[id][1] = StepName(llmCalls[id][Len(llmCalls[id])])
         /\ prePc[id] \in {"he_status", "he_msg", "he_save", "done"}
         /\ wf[id].Status \in {"processing", "failed"}
         /\ notes[id].review = 0
         /\ prePc[id] \in {"he_save", "done"} =>
              /\ wf[id].Status = "failed"
              /\ wf[id].ErrorMsg = StepName(llmCalls[id][Len(llmCalls[id])])
                                     \o " failed: " \o preErr[id][2]

C12_Witness ==
  \E id \in WorkflowIds :
    /\ prePc[id] = "done"
    /\ llmCalls[id] = <<"lyrics", "props", "brackets">>
    /\ wf[id].ErrorMsg = "bracket instructions failed: " \o LLMError

\* runWorkflowSteps has passed line 102 (no step failed)
ReachedReview(id) ==
  prePc[id] \in {"edlyrics", "edprops", "save5", "notify", "done"} /\ ~PreFailed(id)

\* C13: the persona/inspo call is made only for a premium record; a record that
\* reached awaiting_review has made exactly the three calls lyrics, properties,
\* brackets with PersonaInspo unset when not premium, and exactly four, persona
\* last, when premium.
C13_PersonaIffPremium ==
  \A id \in WorkflowIds :
    /\ (\E k \in 1..Len(llmCalls[id]) : llmCalls[id][k] = "persona") => wf[id].IsPremium
    /\ ReachedReview(id) =>
         IF wf[id].IsPremium
           THEN llmCalls[id] = StepOrder /\ wf[id].PersonaInspo # Nil
           ELSE llmCalls[id] = SubSeq(StepOrder, 1, 3) /\ wf[id].PersonaInspo = Nil

C13_Witness ==
  \E id \in WorkflowIds :
    /\ wf[id].Status = "awaiting_review"
    /\ ReachedReview(id)
    /\ ~wf[id].IsPremium
    /\ Len(llmCalls[id]) = 3

\* some step of the record has failed: a pre-review step, a CustomGenerate call or
\* a WaitForCompletion call
StepFailed(id) ==
  \/ PreFailed(id)
  \/ \E k \in 1..Len(sunoCalls[id]) : sunoCalls[id][k].err # "" \/ sunoCalls[id][k].ids = <<>>
  \/ \E c \in waitCalls[id] : c.err # ""

\* C14: a notifier.Send, failed or not, leaves the record as it found it (Status
\* and ErrorMsg included) and is the last step of its task; a record is failed or
\* carries an ErrorMsg only when one of its steps has failed.
C14_NotifierNeverChangesRecord ==
  /\ [](\A id \in WorkflowIds :
          (wf[id].Status = "failed" \/ wf[id].ErrorMsg # "") => StepFailed(id))
  /\ [][\A id \in WorkflowIds :
          notes'[id] # notes[id] =>
            /\ wf'[id] = wf[id]
            /\ prePc'[id] \in {prePc[id], "done"}
            /\ \A h \in Slots : slotPc'[h] \in {slotPc[h], "exit"}]_vars

C14_Witness ==
  \E id \in WorkflowIds :
    /\ notes[id].review > 0 /\ notes[id].completed > 0
    /\ wf[id].Status = "completed" /\ wf[id].ErrorMsg = ""

\* a CustomGenerate call of the record returned an error or no job
SubmitFailed(id) ==
  \E k \in 1..Len(sunoCalls[id]) : sunoCalls[id][k].err # "" \/ sunoCalls[id][k].ids = <<>>
HasPrefix(s, p) == Len(s) >= Len(p) /\ SubSeq(s, 1, Len(p)) = p
\* no goroutine of the record is inside handleError
ErrorHandled(id) == \A h \in Slots : slot[h].id = id => slotPc[h] \notin ErrorPcs

\* C15: once a CustomGenerate call of a record has returned an error or an empty
\* list, SunoJobID stays empty, the Status is never generating, no polling task
\* runs, and after handleError the record is failed with an ErrorMsg that starts
\* with "suno submission failed: ".
C15_SubmitFailureFails ==
  \A id \in WorkflowIds :
    SubmitFailed(id) =>
      /\ wf[id].SunoJobID = ""
      /\ wf[id].Status \notin {"generating", "completed"}
      /\ waitCalls[id] = {}
      /\ \A h \in Slots : slot[h].id = id => slotPc[h] \notin PollTaskPcs
      /\ ErrorHandled(id) =>
           /\ wf[id].Status = "failed"
           /\ HasPrefix(wf[id].ErrorMsg, "suno submission failed: ")

\* C16: once a failed CustomGenerate call of a record has been handled, exactly one
\* error message for that record has been passed to the notifier.
C16_SubmitFailureNotifiedOnce ==
  \A id \in WorkflowIds :
    (SubmitFailed(id) /\ ErrorHandled(id)) => notes[id].error = 1

\* the first job ids the successful CustomGenerate calls of a record returned
FirstJobIds(id) ==
  {sunoCalls[id][k].ids[1] : k \in {j \in 1..Len(sunoCalls[id]) : sunoCalls[id][j].ids # <<>>}}
\* the statuses the successful WaitForCompletion calls of a record returned
ReportedStatuses(id) == {c.status : c \in {d \in waitCalls[id] : d.err = ""}}

\* C17: the Save that follows a successful CustomGenerate call (line 225) stores
\* Status generating and SunoJobID equal to the first returned job id; the
\* WaitForCompletion call that follows polls that id, on a record whose Status is
\* generating; and the Save that follows its success (line 245) stores Status
\* completed and SunoResult equal to the status the MGS reported.
C17_JobIdThenGeneratingThenCompleted ==
  [][\A h \in Slots :
       LET id == slot[h].id IN
       /\ (slotPc[h] = "sub_save" /\ slotPc'[h] = "poll") =>
            /\ wf'[id].Status = "generating"
            /\ wf'[id].SunoJobID = slot[h].audioID
            /\ slot[h].audioID \in FirstJobIds(id)
       /\ (slotPc[h] = "poll" /\ slotPc'[h] # "poll") =>
            /\ wf[id].Status = "generating"
            /\ \E c \in waitCalls'[id] : c.id = wf[id].SunoJobID /\ c.id = slot[h].audioID
       /\ (slotPc[h] = "poll_save" /\ slotPc'[h] = "poll_notify") =>
            /\ wf'[id].Status = "completed"
            /\ wf'[id].SunoResult \in ReportedStatuses(id)]_vars

\* a WaitForCompletion call of the record returned an error
WaitFailed(id) == \E c \in waitCalls[id] : c.err # ""

\* C18: once a WaitForCompletion call of a record has returned an error (retries
\* used up, or a failed read), the record is never completed, and after handleError
\* it is failed with an ErrorMsg that starts with "suno completion failed: ".
C18_PollFailureFails ==
  \A id \in WorkflowIds :
    WaitFailed(id) =>
      /\ wf[id].Status # "completed"
      /\ ErrorHandled(id) =>
           /\ wf[id].Status = "failed"
           /\ HasPrefix(wf[id].ErrorMsg, "suno completion failed: ")

WfcReady(k) == wfc.reads[k] \in ReadyStatuses
WfcReturned == wfc.pc = "return"

\* C19: WaitForCompletion returns, after at most maxRetries reads of the job; a
\* job is returned exactly at the first read that is ready; maxRetries reads none
\* of which is ready end in the max-retries error; a call whose context was
\* cancelled returns an error, and reads nothing after the cancellation.
C19_WaitForCompletionTerminates ==
  /\ [](/\ Len(wfc.reads) <= wfc.maxRetries
        /\ \A k \in 1..(Len(wfc.reads) - 1) : wfc.reads[k] \in PendingStatuses
        /\ WfcReturned =>
             /\ wfc.err = "" <=> (wfc.reads # <<>> /\ WfcReady(Len(wfc.reads)))
             /\ wfc.err = "" => wfc.ret = wfc.reads[Len(wfc.reads)]
             /\ wfc.err = ErrMaxRetries <=>
                  /\ Len(wfc.reads) = wfc.maxRetries
                  /\ \A k \in 1..Len(wfc.reads) : wfc.reads[k] \in PendingStatuses
             /\ wfc.ctx = "cancelled" => wfc.err # "")
  /\ [][wfc.ctx = "cancelled" => wfc'.reads = wfc.reads]_vars
  /\ <>WfcReturned

C19_Witness ==
  /\ WfcReturned
  /\ wfc.maxRetries = MaxPolls
  /\ Len(wfc.reads) = MaxPolls
  /\ wfc.ret = "complete"

\* ---------------------------------------------------------------- the MGS request
\* submitToSuno followed from its entry on every approved record of a small family:
\* the reviewer's lyrics empty or not, the bracketed lyrics empty or not, and the
\* style and vocal type the form carried.
FormLyrics == {"", "[Chorus] edited"}
BracketedLyrics == {"", GenBrackets}
FormStyles == {"", "jazz", "lofi, mellow"}
FormVocalTypes == {"", "male", "female"}

ApprovedRecords ==
  {[ZeroState EXCEPT !.Status = "approved", !.CreatedAt = 1, !.UpdatedAt = 2,
                     !.TaskDescription = "a rainy-evening lofi track",
                     !.Lyrics = GenLyrics, !.LyricsWithBrackets = lb,
                     !.SunoProperties = Ptr(GenProps),
                     !.EditedLyrics = el,
                     !.EditedProperties =
                        Ptr(FormProperties([ApproveForm EXCEPT !.style = st,
                                                                !.vocal_type = vt]))] :
     el \in FormLyrics, lb \in BracketedLyrics, st \in FormStyles, vt \in FormVocalTypes}

InitRequest ==
  /\ \E w \in ApprovedRecords : wf = [id \in WorkflowIds |-> w]
  /\ store = WorkflowIds
  /\ clock = 3
  /\ prePc = [id \in WorkflowIds |-> "done"]
  /\ preErr = [id \in WorkflowIds |-> <<"", "">>]
  /\ slotPc = [h \in Slots |-> IF h = 1 THEN "sub_props" ELSE "idle"]
  /\ slot = [h \in Slots |->
               IF h = 1 THEN [ZeroSlot EXCEPT !.id = "wf1", !.resp = 302] ELSE ZeroSlot]
  /\ llmCalls = [id \in WorkflowIds |-> SubSeq(StepOrder, 1, 3)]
  /\ sunoCalls = [id \in WorkflowIds |-> <<>>]
  /\ waitCalls = [id \in WorkflowIds |-> {}]
  /\ notes = [id \in WorkflowIds |-> [review |-> 1, completed |-> 0, error |-> 0]]
  /\ reviews = [id \in WorkflowIds |->
                  [approve |-> 1, reject |-> 0, refused |-> 0, read |-> {"awaiting_review"}]]
  /\ wfc = ZeroWfc
  /\ fcall = NoCall

NextRequest == SubmitProps(1) \/ SubmitLyrics(1) \/ SubmitCall(1)

SpecRequest == InitRequest /\ [][NextRequest]_vars

\* C20: every CustomGenerate request of a record has Prompt = EditedLyrics, or
\* LyricsWithBrackets when EditedLyrics is empty, and Tags = the Style of
\* EditedProperties, followed by ", " and its VocalType when that is not empty.
C20_RequestFromEditedFields ==
  \A id \in WorkflowIds : \A k \in 1..Len(sunoCalls[id]) :
    LET r == sunoCalls[id][k].req
        w == wf[id]
        p == Deref(w.EditedProperties)
    IN /\ r.Prompt = IF w.EditedLyrics = "" THEN w.LyricsWithBrackets ELSE w.EditedLyrics
       /\ r.Tags = IF p.VocalType = "" THEN p.Style ELSE p.Style \o ", " \o p.VocalType

C20_Witness ==
  \E id \in WorkflowIds :
    /\ Len(sunoCalls[id]) = 1
    /\ wf[id].EditedLyrics = ""
    /\ sunoCalls[id][1].req.Prompt = GenBrackets
    /\ sunoCalls[id][1].req.Tags = "jazz"

\* ---------------------------------------------------------------- helpers on their own
\* every variable but fcall as the server has them before any request
IdleServer ==
  /\ wf = [id \in WorkflowIds |-> ZeroState]
  /\ store = {}
  /\ clock = 1
  /\ prePc = [id \in WorkflowIds |-> "none"]
  /\ preErr = [id \in WorkflowIds |-> <<"", "">>]
  /\ slotPc = [h \in Slots |-> "idle"]
  /\ slot = [h \in Slots |-> ZeroSlot]
  /\ llmCalls = [id \in WorkflowIds |-> <<>>]
  /\ sunoCalls = [id \in WorkflowIds |-> <<>>]
  /\ waitCalls = [id \in WorkflowIds |-> {}]
  /\ notes = [id \in WorkflowIds |-> [review |-> 0, completed |-> 0, error |-> 0]]
  /\ reviews = [id \in WorkflowIds |-> [approve |-> 0, reject |-> 0, refused |-> 0, read |-> {}]]
  /\ wfc = ZeroWfc

FcallFrame ==
  UNCHANGED <<wf, store, clock, prePc, preErr, slotPc, slot, llmCalls, sunoCalls,
              waitCalls, notes, reviews, wfc>>

\* ---------------------------------------------------------------- truncateString
\* A Go string is its UTF-8 bytes: len(s) counts bytes and s[:n] cuts bytes.  A
\* text is kept here as the sequence of its characters, each written as its
\* encoding: a one-byte character, or a two-byte one (lead byte, continuation).
AsciiChar == "a"
WideChar == "Zz"
RECURSIVE Utf8(_)
Utf8(chars) == IF chars = <<>> THEN "" ELSE Head(chars) \o Utf8(Tail(chars))

\* longest task followed, in characters, and most two-byte characters in it
MaxTaskChars == 56
MaxWide == 2
\* the title limit submitToSuno passes (workflow.go line 198)
TitleLimit == 50

\* the task of n characters whose last nWide characters are two-byte ones
TaskChars(n, nWide) == [k \in 1..n |-> IF k > n - nWide THEN WideChar ELSE AsciiChar]

InitTitle ==
  /\ IdleServer
  /\ \E n \in 0..MaxTaskChars, nWide \in 0..MaxWide :
       /\ nWide <= n
       /\ fcall = [fn |-> "truncateString", in |-> TaskChars(n, nWide), out |-> <<>>]

\* title := truncateString(state.TaskDescription, 50)
ApplyTruncate ==
  /\ fcall.fn = "truncateString" /\ fcall.out = <<>>
  /\ fcall' = [fcall EXCEPT !.out = <<truncateString(Utf8(fcall.in), TitleLimit)>>]
  /\ FcallFrame

SpecTitle == InitTitle /\ [][ApplyTruncate]_vars

\* C21: the title is the task unchanged when the task has at most 50 characters,
\* and otherwise its first 50 characters followed by "...".
C21_TitleIsTruncatedTask ==
  (fcall.fn = "truncateString" /\ fcall.out # <<>>) =>
    fcall.out[1] = IF Len(fcall.in) <= TitleLimit
                     THEN Utf8(fcall.in)
                     ELSE Utf8(SubSeq(fcall.in, 1, TitleLimit)) \o "..."

\* C22: every CustomGenerate request of a premium record whose PersonaInspo is
\* populated carries that persona and inspo.
C22_RequestCarriesPersonaInspo ==
  \A id \in WorkflowIds : \A k \in 1..Len(sunoCalls[id]) :
    (wf[id].IsPremium /\ wf[id].PersonaInspo # Nil) =>
      LET r == sunoCalls[id][k].req IN
      /\ {"Persona", "Inspo"} \subseteq DOMAIN r
      /\ r.Persona = Deref(wf[id].PersonaInspo).Persona
      /\ r.Inspo = Deref(wf[id].PersonaInspo).Inspo

\* ---------------------------------------------------------------- review round trip
\* the value the review page puts in the weirdness input (tenths, as ParseFloat)
FormatFloat(x) ==
  CASE x = 5 -> "0.5"
    [] x = 17 -> "1.7"
    [] OTHER -> "0"

\* the form the review page submits when the reviewer changes nothing
UnchangedForm(w) ==
  LET p == Deref(w.EditedProperties) IN
  [action |-> "approve", edited_lyrics |-> w.EditedLyrics,
   style |-> p.Style, vocal_type |-> p.VocalType,
   weirdness |-> FormatFloat(p.Weirdness), style_influence |-> p.StyleInfluence,
   persona |-> IF w.PersonaInspo = Nil THEN "" ELSE Deref(w.PersonaInspo).Persona,
   inspo |-> IF w.PersonaInspo = Nil THEN "" ELSE Deref(w.PersonaInspo).Inspo]

\* the record after SubmitReview lines 229-252 and ApproveWorkflow line 176
Reviewed(w, req) ==
  [w EXCEPT !.EditedLyrics = req.edited_lyrics,
            !.EditedProperties = Ptr(FormProperties(req)),
            !.PersonaInspo =
               IF w.IsPremium /\ (req.persona # "" \/ req.inspo # "")
                 THEN Ptr([Persona |-> req.persona, Inspo |-> req.inspo]) ELSE @,
            !.Status = "approved"]

\* the request submitToSuno builds for a record (lines 187-213)
RequestOf(w) ==
  LET props == IF w.EditedProperties = Nil THEN w.SunoProperties ELSE w.EditedProperties
      lyrics == IF w.EditedLyrics = "" THEN w.LyricsWithBrackets ELSE w.EditedLyrics
  IN BuildRequest(w, Deref(props), lyrics)

\* records as runWorkflowSteps leaves them in awaiting_review
PairTasks == {"a rainy-evening lofi track", "an anthem for the office coffee machine"}
PairLyrics == {GenLyrics, "do re mi"}
AwaitingRecords ==
  {[ZeroState EXCEPT !.Status = "awaiting_review", !.CreatedAt = 1, !.UpdatedAt = 2,
                     !.TaskDescription = t, !.IsPremium = pr,
                     !.Lyrics = ly, !.LyricsWithBrackets = lb,
                     !.SunoProperties = Ptr([GenProps EXCEPT !.Style = st, !.VocalType = vt]),
                     !.PersonaInspo = IF pr THEN Ptr(GenPersonaInspo) ELSE Nil,
                     !.EditedLyrics = lb,
                     !.EditedProperties = Ptr([GenProps EXCEPT !.Style = st, !.VocalType = vt])] :
     t \in PairTasks, pr \in BOOLEAN, ly \in PairLyrics,
     lb \in {GenBrackets, "[Verse] do re mi"}, st \in {"rock", "jazz"}, vt \in {"", "male"}}

SameEdited(w1, w2) ==
  w1.EditedLyrics = w2.EditedLyrics /\ w1.EditedProperties = w2.EditedProperties

InitPair ==
  /\ IdleServer
  /\ \E w1, w2 \in AwaitingRecords :
       /\ SameEdited(w1, w2)
       /\ fcall = [fn |-> "approveUnchanged", in |-> <<w1, w2>>, out |-> <<>>]

\* both records are approved with their review fields unchanged
ApprovePair ==
  /\ fcall.fn = "approveUnchanged" /\ fcall.out = <<>>
  /\ fcall' = [fcall EXCEPT !.out =
        [k \in 1..2 |-> RequestOf(Reviewed(fcall.in[k], UnchangedForm(fcall.in[k])))]]
  /\ FcallFrame

SpecPair == InitPair /\ [][ApprovePair]_vars

SameRequest(r1, r2) == r1.Prompt = r2.Prompt /\ r1.Tags = r2.Tags /\ r1.Title = r2.Title

\* C23 as stated: two records with equal EditedLyrics and EditedProperties, approved
\* unchanged, yield requests with equal Prompt, Tags and Title.
C23_RequestFromEditedAlone ==
  (fcall.fn = "approveUnchanged" /\ fcall.out # <<>>) =>
    SameRequest(fcall.out[1], fcall.out[2])

\* C23 amended: two records with equal EditedLyrics, EditedProperties and
\* TaskDescription, approved unchanged, yield requests with equal Prompt, Tags and
\* Title, whatever their other fields are.
C23_RequestFromEditedAndTask ==
  (/\ fcall.fn = "approveUnchanged" /\ fcall.out # <<>>
   /\ fcall.in[1].TaskDescription = fcall.in[2].TaskDescription) =>
    SameRequest(fcall.out[1], fcall.out[2])

C23_Witness ==
  /\ fcall.fn = "approveUnchanged" /\ fcall.out # <<>>
  /\ fcall.in[1].TaskDescription = fcall.in[2].TaskDescription
  /\ fcall.in[1].IsPremium # fcall.in[2].IsPremium
  /\ fcall.in[1].Lyrics # fcall.in[2].Lyrics
  /\ fcall.out[1].Tags = "jazz, male"

\* ---------------------------------------------------------------- extractSunoProperties
\* An LLM reply is a sequence of characters: "{", "}", the quote "q", a letter "r"
\* of a string value, and "x" for any text outside the object.  The JSON objects
\* followed hold one member: a string, or a nested object holding a string.
MaxStrLen == 2

RECURSIVE Strings(_)
Strings(n) ==
  IF n = 0 THEN {<<>>}
  ELSE Strings(n - 1) \cup {Append(t, c) : t \in Strings(n - 1), c \in {"r", "{", "}"}}

JsonString(t) == <<"q">> \o t \o <<"q">>
JsonObject(member) == <<"{">> \o member \o <<"}">>
\* the well-formed single objects
JsonObjects ==
  {JsonObject(JsonString(t)) : t \in Strings(MaxStrLen)}
  \cup {JsonObject(JsonObject(JsonString(t))) : t \in Strings(MaxStrLen)}

\* json.Unmarshal of a whole text: it succeeds exactly on one object of that shape
IsJsonString(cs) ==
  /\ Len(cs) >= 2 /\ cs[1] = "q" /\ cs[Len(cs)] = "q"
  /\ \A k \in 2..(Len(cs) - 1) : cs[k] \notin {"q", "x"}
Inner(cs) == SubSeq(cs, 2, Len(cs) - 1)
IsBraced(cs) == Len(cs) >= 2 /\ cs[1] = "{" /\ cs[Len(cs)] = "}"
StrictParse(cs) ==
  IF IsBraced(cs) /\ (\/ IsJsonString(Inner(cs))
                      \/ (IsBraced(Inner(cs)) /\ IsJsonString(Inner(Inner(cs)))))
    THEN [ok |-> TRUE, val |-> Ptr(cs)]
    ELSE [ok |-> FALSE, val |-> Nil]

\* extractSunoProperties / extractPersonaInspo lines 282-299: the scan for the
\* first "{" and for the "}" that brings the count back to 0 (0: not found)
RECURSIVE ScanBraces(_, _, _, _)
ScanBraces(cs, i, start, braceCount) ==
  IF i > Len(cs) THEN <<start, 0>>
  ELSE IF cs[i] = "{"
    THEN ScanBraces(cs, i + 1, IF start = 0 THEN i ELSE start, braceCount + 1)
  ELSE IF cs[i] = "}"
    THEN IF braceCount - 1 = 0 /\ start # 0
           THEN <<start, i>>
           ELSE ScanBraces(cs, i + 1, start, braceCount - 1)
  ELSE ScanBraces(cs, i + 1, start, braceCount)

\* lines 301-307: parse what lies between the two, or fail
extractSunoProperties(response) ==
  LET se == ScanBraces(response, 1, 0, 0) IN
  IF se[1] # 0 /\ se[2] # 0 /\ StrictParse(SubSeq(response, se[1], se[2])).ok
    THEN StrictParse(SubSeq(response, se[1], se[2]))
    ELSE [ok |-> FALSE, val |-> Nil]

\* determineSunoProperties lines 132-141: strict parse first, then the extractor
ParseReply(response) ==
  IF StrictParse(response).ok THEN StrictParse(response)
                              ELSE extractSunoProperties(response)

Surround == {<<>>, <<"x">>}

InitExtract ==
  /\ IdleServer
  /\ \E pre \in Surround, obj \in JsonObjects, post \in Surround :
       fcall = [fn |-> "determineSunoProperties",
                in |-> [pre |-> pre, obj |-> obj, post |-> post], out |-> <<>>]

ApplyExtract ==
  /\ fcall.fn = "determineSunoProperties" /\ fcall.out = <<>>
  /\ fcall' = [fcall EXCEPT !.out =
                  <<ParseReply(fcall.in.pre \o fcall.in.obj \o fcall.in.post)>>]
  /\ FcallFrame

SpecExtract == InitExtract /\ [][ApplyExtract]_vars

\* C24: for a reply that is one well-formed object, with or without brace-free
\* text around it, the step succeeds with the record a strict parse of the object
\* alone gives.
C24_ExtractorAgreesWithStrictParse ==
  (fcall.fn = "determineSunoProperties" /\ fcall.out # <<>>) =>
    /\ fcall.out[1].ok
    /\ fcall.out[1].val = StrictParse(fcall.in.obj).val

\* ---------------------------------------------------------------- readers of the Store
\* What Get, List and ListByStatus hand to a reader: the record behind the pointer
\* the map holds.
Seen(id) == IF Get(id) = Nil THEN Nil ELSE Ptr(wf[Deref(Get(id))])

\* C25: what a reader sees of a stored record changes only in a step that is a
\* Save, which stamps UpdatedAt along with the fields.
C25_ReaderSeesOnlySavedValues ==
  [][\A id \in store :
       Seen(id)' # Seen(id) =>
         Deref(Seen(id)').UpdatedAt # Deref(Seen(id)).UpdatedAt]_vars

\* ---------------------------------------------------------------- the Store on its own
\* Callers that only Save and Delete; fcall.in is the sequence of the calls made.
MaxOps == 3
StoreIds == {"a", "b"}
StoreStatuses == {"processing", "completed"}

\* Store.Delete
Delete(id) == store' = store \ {id}

\* Store.List
List == {wf[id] : id \in store}

ListIgnoringStatus(status) == List

\* Store.ListByStatus
ListByStatus(status) == {wf[id] : id \in {k \in store : wf[k].Status = status}}

StoreFrame ==
  UNCHANGED <<prePc, preErr, slotPc, slot, llmCalls, sunoCalls, waitCalls, notes,
              reviews, wfc>>

InitStore ==
  /\ wf = [id \in StoreIds |-> ZeroState]
  /\ store = {}
  /\ clock = 1
  /\ prePc = [id \in WorkflowIds |-> "none"]
  /\ preErr = [id \in WorkflowIds |-> <<"", "">>]
  /\ slotPc = [h \in Slots |-> "idle"]
  /\ slot = [h \in Slots |-> ZeroSlot]
  /\ llmCalls = [id \in WorkflowIds |-> <<>>]
  /\ sunoCalls = [id \in WorkflowIds |-> <<>>]
  /\ waitCalls = [id \in WorkflowIds |-> {}]
  /\ wfc = ZeroWfc
  /\ fcall = [fn |-> "Store", in |-> <<>>, out |-> <<>>]
  /\ notes = [id \in WorkflowIds |-> [review |-> 0, completed |-> 0, error |-> 0]]
  /\ reviews = [id \in WorkflowIds |->
                  [approve |-> 0, reject |-> 0, refused |-> 0, read |-> {}]]

StoreSave ==
  \E id \in StoreIds, status \in StoreStatuses :
    LET state == [ZeroState EXCEPT !.Status = status] IN
    /\ Len(fcall.in) < MaxOps
    /\ Save(id, [wf EXCEPT ![id] = state])
    /\ fcall' = [fcall EXCEPT !.in =
                   Append(@, [op |-> "save", id |-> id, state |-> state, at |-> clock])]
    /\ StoreFrame

StoreDelete ==
  \E id \in StoreIds :
    /\ Len(fcall.in) < MaxOps
    /\ Delete(id)
    /\ fcall' = [fcall EXCEPT !.in =
                   Append(@, [op |-> "delete", id |-> id, state |-> ZeroState, at |-> clock])]
    /\ UNCHANGED <<wf, clock>>
    /\ StoreFrame

NextStore == StoreSave \/ StoreDelete

SpecStore == InitStore /\ [][NextStore]_vars

\* the record of the last save of id in a sequence of calls, Nil if there is none
\* or a delete of id came after it
RECURSIVE LastSaved(_, _)
LastSaved(ops, id) ==
  IF ops = <<>> THEN Nil
  ELSE LET o == ops[Len(ops)] IN
       IF o.id # id THEN LastSaved(SubSeq(ops, 1, Len(ops) - 1), id)
       ELSE IF o.op = "delete" THEN Nil
       ELSE Ptr([o.state EXCEPT !.UpdatedAt = o.at])

Present(ops) == {Deref(LastSaved(ops, id)) : id \in {k \in StoreIds : LastSaved(ops, k) # Nil}}

\* C26: after any sequence of Save and Delete calls, Get gives the record of the
\* last Save of the id unless a Delete followed, List gives the records present,
\* and ListByStatus those of them with the status asked for.
C26_StoreAnswersFromLastSave ==
  fcall.fn = "Store" =>
    /\ \A id \in StoreIds : Seen(id) = LastSaved(fcall.in, id)
    /\ List = Present(fcall.in)
    /\ \A status \in StoreStatuses \cup {"failed"} :
         ListByStatus(status) = {r \in Present(fcall.in) : r.Status = status}

\* C26 witness: a record saved and later deleted, and a record present at the end
C26_Witness ==
  /\ fcall.fn = "Store" /\ Len(fcall.in) = MaxOps
  /\ \E i, j \in 1..MaxOps :
       /\ i < j /\ fcall.in[i].op = "save" /\ fcall.in[j].op = "delete"
       /\ fcall.in[i].id = fcall.in[j].id
  /\ store # {}

\* ---------------------------------------------------------------- StartWorkflow returns
Started(id) == prePc[id] # "none"

\* C27: once StartWorkflow has returned, Get finds the record; at the return the
\* record has status processing and no LLM call of the record has been made.
C27_StartStoresBeforeReturning ==
  /\ [](\A id \in WorkflowIds : Started(id) => Get(id) # Nil)
  /\ [][\A id \in WorkflowIds :
          (~Started(id) /\ Started(id)') =>
            /\ Get(id)' # Nil
            /\ Deref(Seen(id)').Status = "processing"
            /\ llmCalls'[id] = <<>>]_vars

\* C27 witness: StartWorkflow has returned and the goroutine has not made its
\* first LLM call
C27_Witness ==
  \E id \in WorkflowIds :
    /\ Started(id) /\ prePc[id] = "lyrics" /\ llmCalls[id] = <<>>
    /\ Get(id) # Nil /\ wf[id].Status = "processing"

\* ---------------------------------------------------------------- TelegramWebhook
\* strings.TrimSpace, for the one kind of white space followed here
RECURSIVE TrimLeft(_)
TrimLeft(s) ==
  IF Len(s) > 0 /\ SubSeq(s, 1, 1) = " " THEN TrimLeft(SubSeq(s, 2, Len(s))) ELSE s
RECURSIVE TrimRight(_)
TrimRight(s) ==
  IF Len(s) > 0 /\ SubSeq(s, Len(s), Len(s)) = " "
    THEN TrimRight(SubSeq(s, 1, Len(s) - 1)) ELSE s
TrimSpace(s) == TrimRight(TrimLeft(s))

\* strings.Index(s, c) for a one-character c, counted from 1; 0: not found
RECURSIVE IndexFrom(_, _, _)
IndexFrom(s, c, i) ==
  IF i > Len(s) THEN 0
  ELSE IF SubSeq(s, i, i) = c THEN i ELSE IndexFrom(s, c, i + 1)

\* strings.ToLower, for the capital letters of the messages followed here
LowerChar(c) ==
  CASE c = "P" -> "p" [] c = "R" -> "r" [] c = "E" -> "e" [] c = "M" -> "m"
    [] c = "I" -> "i" [] c = "U" -> "u" [] OTHER -> c
RECURSIVE ToLower(_)
ToLower(s) ==
  IF Len(s) = 0 THEN s
  ELSE LowerChar(SubSeq(s, 1, 1)) \o ToLower(SubSeq(s, 2, Len(s)))

\* telegram.VerifyWebhookSecret; provided is r.Header.Get(...), "" when absent
VerifyLengthOnly(provided, expectedSecret) ==
  LET expected == TrimSpace(expectedSecret) IN
  IF expected = "" THEN TRUE
  ELSE provided # "" /\ Len(provided) = Len(expected)

VerifyWebhookSecret(provided, expectedSecret) ==
  LET expected == TrimSpace(expectedSecret) IN
  IF expected = "" THEN TRUE
  ELSE IF provided = "" \/ Len(provided) # Len(expected) THEN FALSE
  ELSE provided = expected

parseAsPlainText(text) == <<"", TrimSpace(text)>>

\* parseTelegramCommand: <<command, args>>
parseTelegramCommand(text) ==
  LET trimmed == TrimSpace(text) IN
  IF trimmed = "" THEN <<"", "">>
  ELSE IF ~HasPrefix(trimmed, "/") THEN <<"", trimmed>>
  ELSE LET sp    == IndexFrom(trimmed, " ", 1)
           part0 == IF sp = 0 THEN trimmed ELSE SubSeq(trimmed, 1, sp - 1)
           at    == IndexFrom(part0, "@", 1)
           command == IF at = 0 THEN part0 ELSE SubSeq(part0, 1, at - 1)
           args  == TrimSpace(SubSeq(trimmed, Len(part0) + 1, Len(trimmed)))
       IN <<ToLower(command), args>>

\* The configurations: bot token, webhook secret, chat filter, premium by default
Configs ==
  [botToken : {"", "tok"}, secret : {"", " ", "s3cret "},
   chatID : {"", "7"}, premium : BOOLEAN]

\* The header values: absent, the secret, a wrong one of the same length, a short one
Headers == {"", "s3cret", "wrong!", "s3cre"}

\* The message texts, each with what it is meant to be: kind and argument
Texts ==
  { [raw |-> "/premium a song",      kind |-> "premium",       arg |-> "a song"],
    [raw |-> " /basic a song ",      kind |-> "basic",         arg |-> "a song"],
    [raw |-> "/PREMIUM a song",      kind |-> "other",         arg |-> "a song"],
    [raw |-> "/basic@songbot a song", kind |-> "other",        arg |-> "a song"],
    [raw |-> "/premium",             kind |-> "empty",         arg |-> ""],
    [raw |-> "/basic  ",             kind |-> "empty",         arg |-> ""],
    [raw |-> "/status wf1",          kind |-> "status",        arg |-> "wf1"],
    [raw |-> "/status nope",         kind |-> "status",        arg |-> "nope"],
    [raw |-> "/status",              kind |-> "status",        arg |-> ""],
    [raw |-> "/start",               kind |-> "start",         arg |-> ""],
    [raw |-> "/help",                kind |-> "help",          arg |-> ""],
    [raw |-> "/dance now",           kind |-> "unknown",       arg |-> "now"],
    [raw |-> "/premiumx a song",     kind |-> "unknown",       arg |-> "a song"],
    [raw |-> "a song",               kind |-> "other",         arg |-> "a song"],
    [raw |-> "  ",                   kind |-> "other",         arg |-> ""] }

\* The updates: an unreadable body, an update without a message, or a message
Messages == [text : Texts, isBot : BOOLEAN, chat : {"7", "8"}]
Updates ==
  {[valid |-> FALSE, message |-> Nil], [valid |-> TRUE, message |-> Nil]}
  \cup {[valid |-> TRUE, message |-> Ptr(m)] : m \in Messages}

WebhookIds == {"wf1", "wf2"}

Request(cfg, header, update) ==
  [fn |-> "TelegramWebhook",
   in |-> [cfg |-> cfg, header |-> header, update |-> update], out |-> <<>>]

InitWebhook ==
  /\ wf = [id \in WebhookIds |-> ZeroState]
  /\ store = {}
  /\ clock = 1
  /\ prePc = [id \in WebhookIds |-> "none"]
  /\ preErr = [id \in WebhookIds |-> <<"", "">>]
  /\ slotPc = [h \in Slots |-> "idle"]
  /\ slot = [h \in Slots |-> ZeroSlot]
  /\ llmCalls = [id \in WebhookIds |-> <<>>]
  /\ sunoCalls = [id \in WebhookIds |-> <<>>]
  /\ waitCalls = [id \in WebhookIds |-> {}]
  /\ wfc = ZeroWfc
  /\ notes = [id \in WebhookIds |-> [review |-> 0, completed |-> 0, error |-> 0]]
  /\ reviews = [id \in WebhookIds |->
                  [approve |-> 0, reject |-> 0, refused |-> 0, read |-> {}]]
  /\ \E cfg \in Configs, header \in Headers, update \in Updates :
       fcall = Request(cfg, header, update)

\* the next request reaches the server once the one before is dealt with
WebhookArrives ==
  /\ fcall.fn = "TelegramWebhook" /\ fcall.out # <<>> /\ fcall.out[1].pc = "done"
  /\ \E header \in Headers, update \in Updates :
       fcall' = Request(fcall.in.cfg, header, update)
  /\ FcallFrame

\* Handler.TelegramWebhook lines 265-284
TelegramWebhook ==
  /\ fcall.fn = "TelegramWebhook" /\ fcall.out = <<>>
  /\ LET cfg  == fcall.in.cfg
         code == IF cfg.botToken = "" THEN 503
                 ELSE IF ~VerifyWebhookSecret(fcall.in.header, cfg.secret) THEN 401
                 ELSE IF ~fcall.in.update.valid THEN 400
                 ELSE 200
     IN fcall' = [fcall EXCEPT !.out =
                    <<[code |-> code, pc |-> IF code = 200 THEN "go" ELSE "done",
                       started |-> {}, reads |-> {}, replies |-> <<>>]>>]
  /\ FcallFrame

\* uuid.New(): an id no record has yet
FreeIds == {id \in WebhookIds : prePc[id] = "none"}
NewId == IF "wf1" \in FreeIds THEN "wf1" ELSE "wf2"

NoStart(reply) == [start |-> FALSE, task |-> "", isPremium |-> FALSE, reads |-> {}, reply |-> reply]

\* startWorkflowFromTelegram lines 345-362
startWorkflowFromTelegram(task, isPremium) ==
  IF TrimSpace(task) = "" THEN NoStart(<<"Task description is required.">>)
  ELSE [start |-> TRUE, task |-> TrimSpace(task), isPremium |-> isPremium,
        reads |-> {}, reply |-> <<"Workflow started.">>]

\* replyTelegramStatus lines 364-385
replyTelegramStatus(workflowID) ==
  LET id == TrimSpace(workflowID) IN
  IF id = "" THEN NoStart(<<"Usage: /status WORKFLOW_ID">>)
  ELSE [NoStart(IF Get(id) = Nil THEN <<"Workflow not found.">>
                ELSE <<"Status: " \o wf[id].Status>>)
          EXCEPT !.reads = {id}]

\* handleTelegramUpdate lines 286-343: what the update makes the handler do
Dispatch(cfg, update) ==
  IF update.message = Nil THEN NoStart(<<>>)
  ELSE LET message == Deref(update.message)
           text    == TrimSpace(message.text.raw)
           parsed  == parseTelegramCommand(text)
           command == parsed[1]
           args    == parsed[2]
       IN
       IF message.isBot \/ text = "" THEN NoStart(<<>>)
       ELSE IF cfg.chatID # "" /\ message.chat # cfg.chatID THEN NoStart(<<>>)
       ELSE IF command \in {"/start", "/help"} THEN NoStart(<<"help">>)
       ELSE IF command = "/status"
         THEN IF TrimSpace(args) = "" THEN NoStart(<<"Usage: /status WORKFLOW_ID">>)
              ELSE replyTelegramStatus(args)
       ELSE IF command = "/premium"
         THEN IF TrimSpace(args) = "" THEN NoStart(<<"Usage: /premium your task description">>)
              ELSE startWorkflowFromTelegram(args, TRUE)
       ELSE IF command = "/basic"
         THEN IF TrimSpace(args) = "" THEN NoStart(<<"Usage: /basic your task description">>)
              ELSE startWorkflowFromTelegram(args, FALSE)
       ELSE IF command # "" THEN NoStart(<<"Unknown command. Send /help for options.">>)
       ELSE startWorkflowFromTelegram(args, cfg.premium)

\* the goroutine of line 283
handleTelegramUpdate ==
  /\ fcall.fn = "TelegramWebhook" /\ fcall.out # <<>> /\ fcall.out[1].pc = "go"
  /\ LET d == Dispatch(fcall.in.cfg, fcall.in.update) IN
     /\ IF d.start
          THEN /\ FreeIds # {}
               /\ StartWorkflow(NewId, d.task, d.isPremium)
          ELSE UNCHANGED <<wf, store, clock, prePc, preErr, slotPc, slot, llmCalls,
                           sunoCalls, waitCalls, notes, reviews, wfc>>
     /\ fcall' = [fcall EXCEPT !.out =
                    <<[code |-> 200, pc |-> "done",
                       started |-> IF d.start THEN {NewId} ELSE {},
                       reads |-> d.reads, replies |-> d.reply]>>]

NextWebhook == WebhookArrives \/ TelegramWebhook \/ handleTelegramUpdate

SpecWebhook == InitWebhook /\ [][NextWebhook]_vars

Answered == fcall.fn = "TelegramWebhook" /\ fcall.out # <<>>
Untouched ==
  /\ fcall.out[1].pc = "done"
  /\ fcall.out[1].started = {} /\ fcall.out[1].reads = {} /\ fcall.out[1].replies = <<>>

\* C28 as stated: whatever secret is configured, a request whose header is absent
\* or differs from it is answered 401 and nothing is started, read or replied.
C28_WrongSecretUnauthorized ==
  (Answered /\ (fcall.in.header = "" \/ fcall.in.header # fcall.in.cfg.secret)) =>
    fcall.out[1].code = 401 /\ Untouched

\* C28 amended: with a bot token and a non-blank secret configured, a request
\* whose header is absent or differs from the secret without its surrounding
\* white space is answered 401 and nothing is started, read or replied.
C28_WrongSecretUnauthorizedWhenConfigured ==
  (/\ Answered
   /\ fcall.in.cfg.botToken # "" /\ TrimSpace(fcall.in.cfg.secret) # ""
   /\ fcall.in.header # TrimSpace(fcall.in.cfg.secret)) =>
    fcall.out[1].code = 401 /\ Untouched

\* C28 witness: a wrong header of the right length has been turned away
C28_Witness ==
  /\ Answered /\ fcall.in.cfg.botToken # "" /\ fcall.in.cfg.secret = "s3cret "
  /\ fcall.in.header = "wrong!" /\ fcall.in.update.message # Nil
  /\ fcall.out[1].code = 401

\* the message of an update that got past the secret check, the bot filter and the
\* chat filter
Accepted ==
  /\ Answered /\ fcall.out[1].code = 200 /\ fcall.in.update.message # Nil
  /\ ~Deref(fcall.in.update.message).isBot
  /\ fcall.in.cfg.chatID \in {"", Deref(fcall.in.update.message).chat}
TheText == Deref(fcall.in.update.message).text

\* the step in which the goroutine of the update does its work
Handles ==
  IF Answered THEN fcall.out[1].pc = "go" /\ fcall'.out[1].pc = "done" ELSE FALSE

StartsOne(task, isPremium) ==
  /\ \E id \in WebhookIds \ store :
       /\ store' = store \cup {id}
       /\ wf'[id].TaskDescription = task /\ wf'[id].IsPremium = isPremium
       /\ wf'[id].Status = "processing"
       /\ prePc'[id] = "lyrics"
  /\ \A id \in store : wf'[id] = wf[id]
StartsNothing == store' = store /\ wf' = wf /\ prePc' = prePc

\* C29: the goroutine of an accepted message starts one premium record for
\* "/premium <text>", one basic record for "/basic <text>", and starts or changes
\* nothing for /status, /start, /help, for /premium or /basic without text and
\* for an unrecognised slash command.
C29_DispatchByCommand ==
  [][(Handles /\ Accepted) =>
       CASE TheText.kind = "premium" -> StartsOne(TheText.arg, TRUE)
         [] TheText.kind = "basic"   -> StartsOne(TheText.arg, FALSE)
         [] TheText.kind \in {"status", "start", "help", "empty", "unknown"} -> StartsNothing
         [] OTHER -> TRUE]_vars

\* C29 witness: "/premium a song" has started a premium record next to one that
\* was there before
C29_Witness ==
  /\ Accepted /\ fcall.out[1].pc = "done" /\ TheText.kind = "premium"
  /\ fcall.out[1].started = {"wf2"} /\ store = {"wf1", "wf2"}
  /\ wf["wf2"].IsPremium /\ ~wf["wf1"].IsPremium

\* ---------------------------------------------------------------- Notifier.sendMessage
\* what the Telegram API call may come to
HttpReplies == {"ok", "not ok", "garbage", "no connection"}

\* doRequest and the reading of its reply, lines 233-247
doRequest(reply) ==
  CASE reply = "no connection" -> "failed to send request"
    [] reply = "garbage"       -> "failed to unmarshal response"
    [] reply = "not ok"        -> "telegram API error"
    [] OTHER                   -> ""

sendMessageAlways(n, reqBody, reply) == [http |-> 1, err |-> doRequest(reply)]

\* Notifier.sendMessage: the number of HTTP calls made and the error returned
sendMessage(n, reqBody, reply) ==
  IF n.botToken = "" \/ reqBody.ChatID = "" THEN [http |-> 0, err |-> ""]
  ELSE [http |-> 1, err |-> doRequest(reply)]

\* Notifier.Send
Send(n, reply) == sendMessage(n, [ChatID |-> n.chatID], reply)

\* NewNotifier(cfg.TelegramBotToken, cfg.TelegramChatID)
Notifiers == [botToken : {"", "tok"}, chatID : {"", "7"}]

\* A record that runWorkflowSteps has saved in awaiting_review and is about to
\* announce.
InitSend ==
  /\ \E w \in AwaitingRecords, n \in Notifiers, reply \in HttpReplies :
       /\ wf = [id \in WorkflowIds |-> w]
       /\ llmCalls = [id \in WorkflowIds |->
                        IF w.IsPremium THEN StepOrder ELSE SubSeq(StepOrder, 1, 3)]
       /\ fcall = [fn |-> "Send", in |-> [n |-> n, reply |-> reply, state |-> w],
                   out |-> <<>>]
  /\ store = WorkflowIds
  /\ clock = 3
  /\ prePc = [id \in WorkflowIds |-> "notify"]
  /\ preErr = [id \in WorkflowIds |-> <<"", "">>]
  /\ slotPc = [h \in Slots |-> "idle"]
  /\ slot = [h \in Slots |-> ZeroSlot]
  /\ sunoCalls = [id \in WorkflowIds |-> <<>>]
  /\ waitCalls = [id \in WorkflowIds |-> {}]
  /\ wfc = ZeroWfc
  /\ notes = [id \in WorkflowIds |-> [review |-> 0, completed |-> 0, error |-> 0]]
  /\ reviews = [id \in WorkflowIds |->
                  [approve |-> 0, reject |-> 0, refused |-> 0, read |-> {}]]

\* runWorkflowSteps lines 108-115 with the notifier it was given
NotifyWith(id) ==
  /\ prePc[id] = "notify"
  /\ fcall.fn = "Send" /\ fcall.out = <<>>
  /\ LET r == Send(fcall.in.n, fcall.in.reply) IN
       /\ fcall' = [fcall EXCEPT !.out = <<r>>]
       /\ notes' = [notes EXCEPT ![id].review = @ + 1]
       /\ prePc' = [prePc EXCEPT ![id] = AfterSend(r.err # "", "done")]
  /\ UNCHANGED <<wf, store, clock, preErr, slotPc, slot, llmCalls, sunoCalls,
                 waitCalls, reviews, wfc>>

NextSend == \E id \in WorkflowIds : NotifyWith(id)

SpecSend == InitSend /\ [][NextSend]_vars

Unconfigured(n) == n.botToken = "" \/ n.chatID = ""

\* C30: a Send of a notifier without bot token or without chat id makes no HTTP
\* call and returns no error, and the caller ends where it ends after a delivered
\* message: pre-review stage done, the record as it was saved.
C30_UnconfiguredSendIsSilent ==
  (fcall.fn = "Send" /\ fcall.out # <<>> /\ Unconfigured(fcall.in.n)) =>
    /\ fcall.out[1].http = 0 /\ fcall.out[1].err = ""
    /\ \A id \in WorkflowIds :
         /\ prePc[id] = "done" /\ preErr[id] = <<"", "">>
         /\ wf[id] = fcall.in.state /\ wf[id].Status = "awaiting_review"

\* C30 witness: a Send without bot token has returned, where the API would not
\* have been reachable
C30_Witness ==
  /\ fcall.fn = "Send" /\ fcall.out # <<>>
  /\ fcall.in.n.botToken = "" /\ fcall.in.n.chatID # ""
  /\ fcall.in.reply = "no connection"
  /\ fcall.out[1] = [http |-> 0, err |-> ""]
  /\ \A id \in WorkflowIds : prePc[id] = "done"

\* ---------------------------------------------------------------- POST /workflow/start
\* c.PostForm(key): the value of the field, "" when the form does not have it
PostForm(form, key) == IF form[key] = Nil THEN "" ELSE Deref(form[key])

\* The forms: parsable or not, task_description and is_premium missing or given,
\* and what becomes of the upload of audio_file
StartForms ==
  [parses : BOOLEAN,
   task_description : {Nil, Ptr(""), Ptr(" "), Ptr("a rainy-evening lofi track")},
   is_premium : {Nil, Ptr("true"), Ptr("false"), Ptr("on")},
   audio_file : {"none", "saved", "mkdir fails", "create fails"}]

InitStart ==
  /\ IdleServer
  /\ \E form \in StartForms :
       fcall = [fn |-> "POST /workflow/start", in |-> form, out |-> <<>>]

TaskNeverMissing(taskDescription) == FALSE

\* line 156: if taskDescription == ""
TaskMissing(taskDescription) == taskDescription = ""

\* Handler.StartWorkflow lines 145-203
HandleStart ==
  /\ fcall.fn = "POST /workflow/start" /\ fcall.out = <<>>
  /\ LET form == fcall.in
         taskDescription == PostForm(form, "task_description")
         isPremium == PostForm(form, "is_premium") = "true"
         code == IF ~form.parses THEN 400
                 ELSE IF TaskMissing(taskDescription) THEN 400
                 ELSE IF form.audio_file \in {"mkdir fails", "create fails"} THEN 500
                 ELSE 302
     IN /\ fcall' = [fcall EXCEPT !.out = <<code>>]
        /\ IF code = 302
             THEN \E id \in WorkflowIds : StartWorkflow(id, taskDescription, isPremium)
             ELSE UNCHANGED <<wf, store, clock, prePc, preErr, slotPc, slot, llmCalls,
                              sunoCalls, waitCalls, notes, reviews, wfc>>

SpecStart == InitStart /\ [][HandleStart]_vars

\* C31: a start request whose task_description is empty or missing is answered
\* 400, and no record is stored and no pre-review goroutine started.
C31_EmptyTaskRefused ==
  (/\ fcall.fn = "POST /workflow/start" /\ fcall.out # <<>>
   /\ fcall.in.task_description \in {Nil, Ptr("")}) =>
    /\ fcall.out[1] = 400
    /\ store = {}
    /\ \A id \in WorkflowIds : prePc[id] = "none" /\ wf[id] = ZeroState

\* C31 witness: a parsable form without task_description has been answered 400
C31_Witness ==
  /\ fcall.fn = "POST /workflow/start" /\ fcall.out = <<400>>
  /\ fcall.in.parses /\ fcall.in.task_description = Nil
  /\ fcall.in.audio_file = "saved" /\ fcall.in.is_premium = Ptr("true")

\* ---------------------------------------------------------------- the two pages
MaxHops == 3
Statuses ==
  {"processing", "awaiting_review", "approved", "generating", "completed",
   "failed", "rejected"}

\* a record in each status, as the Engine leaves it there
PageRecord(status, isPremium) ==
  IF status = "processing"
    THEN [ZeroState EXCEPT !.Status = status, !.CreatedAt = 1, !.UpdatedAt = 2,
                           !.TaskDescription = "a rainy-evening lofi track",
                           !.IsPremium = isPremium]
    ELSE LET w == CHOOSE r \in AwaitingRecords :
                    /\ r.IsPremium = isPremium /\ r.Lyrics = GenLyrics
                    /\ r.LyricsWithBrackets = GenBrackets
                    /\ r.SunoProperties = Ptr(GenProps)
                    /\ r.TaskDescription = "a rainy-evening lofi track"
         IN [w EXCEPT !.Status = status,
                      !.SunoJobID = IF status \in {"generating", "completed"} THEN "job1" ELSE "",
                      !.SunoResult = IF status = "completed" THEN "complete" ELSE ""]

StatusPageRedirectsFailedToo(w) == w.Status \in {"awaiting_review", "failed"}

\* WorkflowStatus line 102
StatusPageRedirects(w) == w.Status = "awaiting_review"

\* ReviewPage line 128
ReviewPageRedirects(w) == w.Status # "awaiting_review"

\* WorkflowStatus lines 92-116 and ReviewPage lines 119-142: the answer to a GET
ServePage(page, id, renders) ==
  IF Get(id) = Nil THEN [code |-> 404, page |-> page, location |-> ""]
  ELSE IF page = "workflow" /\ StatusPageRedirects(wf[id])
    THEN [code |-> 302, page |-> page, location |-> "review"]
  ELSE IF page = "review" /\ ReviewPageRedirects(wf[id])
    THEN [code |-> 302, page |-> page, location |-> "workflow"]
  ELSE [code |-> IF renders THEN 200 ELSE 500, page |-> page, location |-> ""]

InitPages ==
  /\ \E status \in Statuses, isPremium \in BOOLEAN :
       /\ wf = [id \in WorkflowIds |-> PageRecord(status, isPremium)]
       /\ llmCalls = [id \in WorkflowIds |->
                        IF status = "processing" THEN <<>>
                        ELSE IF isPremium THEN StepOrder ELSE SubSeq(StepOrder, 1, 3)]
       /\ prePc = [id \in WorkflowIds |-> IF status = "processing" THEN "lyrics" ELSE "done"]
  /\ \E page \in {"workflow", "review"}, id \in WorkflowIds \cup {UnknownId},
        renders \in BOOLEAN :
       fcall = [fn |-> "GET", in |-> [page |-> page, id |-> id, renders |-> renders],
                out |-> <<>>]
  /\ store = WorkflowIds
  /\ clock = 3
  /\ preErr = [id \in WorkflowIds |-> <<"", "">>]
  /\ slotPc = [h \in Slots |-> "idle"]
  /\ slot = [h \in Slots |-> ZeroSlot]
  /\ sunoCalls = [id \in WorkflowIds |-> <<>>]
  /\ waitCalls = [id \in WorkflowIds |-> {}]
  /\ wfc = ZeroWfc
  /\ notes = [id \in WorkflowIds |-> [review |-> 0, completed |-> 0, error |-> 0]]
  /\ reviews = [id \in WorkflowIds |->
                  [approve |-> 0, reject |-> 0, refused |-> 0, read |-> {}]]

\* the browser asks for the page, and then for the page each redirect names
PageGet ==
  /\ fcall.fn = "GET" /\ Len(fcall.out) < MaxHops
  /\ IF fcall.out = <<>> THEN TRUE ELSE fcall.out[Len(fcall.out)].code = 302
  /\ LET page == IF fcall.out = <<>> THEN fcall.in.page
                  ELSE fcall.out[Len(fcall.out)].location
     IN fcall' = [fcall EXCEPT !.out =
                    Append(@, ServePage(page, fcall.in.id, fcall.in.renders))]
  /\ FcallFrame

SpecPages == InitPages /\ [][PageGet]_vars

Redirected(r) == r.code = 302
Rendered(r) == r.code \in {200, 500}

\* C32: for an existing record whose status stays as it is, the status page
\* redirects exactly when the status is awaiting_review and the review page
\* exactly when it is not, so only one of the two pages is rendered and a second
\* answer is never a redirect.
C32_OnePageRendersOneHop ==
  (fcall.fn = "GET" /\ Get(fcall.in.id) # Nil) =>
    LET awaiting == wf[fcall.in.id].Status = "awaiting_review" IN
    /\ \A k \in 1..Len(fcall.out) :
         /\ fcall.out[k].page = "workflow" => (Redirected(fcall.out[k]) <=> awaiting)
         /\ fcall.out[k].page = "review" => (Redirected(fcall.out[k]) <=> ~awaiting)
         /\ Rendered(fcall.out[k]) =>
              fcall.out[k].page = IF awaiting THEN "review" ELSE "workflow"
         /\ Redirected(fcall.out[k]) \/ Rendered(fcall.out[k])
    /\ Len(fcall.out) <= 2
    /\ Len(fcall.out) = 2 => Rendered(fcall.out[2])

\* C32 witness: the review page of a completed record was asked for, and the one
\* redirect ended on the status page
C32_Witness ==
  /\ fcall.fn = "GET" /\ fcall.in.id \in store /\ fcall.in.page = "review"
  /\ wf[fcall.in.id].Status = "completed"
  /\ Len(fcall.out) = 2
  /\ fcall.out[1].code = 302 /\ fcall.out[2].code = 200 /\ fcall.out[2].page = "workflow"

\* ---------------------------------------------------------------- Client.ChatWithMessages
\* What the remote endpoint may answer: a status code, and a body that is not
\* JSON or a ChatResponse with or without an error envelope and choices.
HttpStatuses == {200, 201, 400, 401, 429, 500, 503}
ChatBodies ==
  {[json |-> FALSE, error |-> Nil, choices |-> <<>>]}
  \cup [json : {TRUE}, error : {Nil, Ptr("boom")},
        choices : {<<>>, <<"">>, <<GenLyrics>>, <<GenLyrics, "do re mi">>}]
ChatReplies ==
  {[sent |-> FALSE, read |-> FALSE, status |-> 200, body |-> [json |-> FALSE, error |-> Nil, choices |-> <<>>]],
   [sent |-> TRUE, read |-> FALSE, status |-> 200, body |-> [json |-> FALSE, error |-> Nil, choices |-> <<>>]]}
  \cup [sent : {TRUE}, read : {TRUE}, status : HttpStatuses, body : ChatBodies]

\* Client.ChatWithMessages lines 539-586: <<text, err>>
ChatWithMessages(reply) ==
  IF ~reply.sent THEN [val |-> "", err |-> "failed to send request"]
  ELSE IF ~reply.read THEN [val |-> "", err |-> "failed to read response"]
  ELSE IF ~reply.body.json THEN [val |-> "", err |-> "failed to unmarshal response"]
  ELSE IF reply.body.error # Nil
    THEN [val |-> "", err |-> "API error: " \o Deref(reply.body.error)]
  ELSE IF Len(reply.body.choices) = 0 THEN [val |-> "", err |-> "no choices in response"]
  ELSE [val |-> reply.body.choices[1], err |-> ""]

InitChat ==
  /\ IdleServer
  /\ \E reply \in ChatReplies :
       fcall = [fn |-> "ChatWithMessages", in |-> reply, out |-> <<>>]

ApplyChat ==
  /\ fcall.fn = "ChatWithMessages" /\ fcall.out = <<>>
  /\ fcall' = [fcall EXCEPT !.out = <<ChatWithMessages(fcall.in)>>]
  /\ FcallFrame

SpecChat == InitChat /\ [][ApplyChat]_vars

\* C33: when the endpoint answers with a status outside 200..299 or with an error
\* envelope, the chat operation returns an error and no text.
C33_ChatFailsOnErrorAnswer ==
  (/\ fcall.fn = "ChatWithMessages" /\ fcall.out # <<>>
   /\ fcall.in.sent /\ fcall.in.read
   /\ (fcall.in.status \notin 200..299 \/ fcall.in.body.error # Nil)) =>
    fcall.out[1].err # "" /\ fcall.out[1].val = ""

\* ---------------------------------------------------------------- time stamps
\* C34: a record's UpdatedAt is never before its CreatedAt, and no step, a Save in
\* particular, moves UpdatedAt back.
C34_UpdatedAtNeverBehind ==
  /\ [](\A id \in WorkflowIds : wf[id].UpdatedAt >= wf[id].CreatedAt)
  /\ [][\A id \in WorkflowIds : wf'[id].UpdatedAt >= wf[id].UpdatedAt]_vars

\* C34 witness: a record that has been saved again after StartWorkflow saved it
C34_Witness ==
  \E id \in store :
    /\ wf[id].CreatedAt > 0 /\ wf[id].UpdatedAt > wf[id].CreatedAt + 2
    /\ wf[id].Status = "awaiting_review"

\* ---------------------------------------------------------------- progress
\* Every call returns: each goroutine that can take a step eventually takes one.
\* Requests (Start, SubmitReview) come or do not come.
\* The server followed for one submit request at a time.
NextLive ==
  \/ Start
  \/ \E id \in WorkflowIds : PreReview(id)
  \/ SubmitReview(1, WorkflowIds) \/ Review(1)

Fairness ==
  /\ \A id \in WorkflowIds : WF_vars(PreReview(id))
  /\ WF_vars(Review(1))

SpecLive == Init /\ [][NextLive]_vars /\ Fairness

\* C35: a started record gets to awaiting_review or failed, an approved record
\* gets to completed or failed, and no record stays in processing, approved or
\* generating for ever.
C35_StagesRunToTheirEnd ==
  \A id \in WorkflowIds :
    /\ (wf[id].Status = "processing") ~> (wf[id].Status \in {"awaiting_review", "failed"})
    /\ (wf[id].Status = "approved") ~> (wf[id].Status \in {"completed", "failed"})
    /\ \A st \in {"processing", "approved", "generating"} : ~<>[](wf[id].Status = st)

\* C35 witness: an approved record has got to completed
C35_Witness ==
  \E id \in WorkflowIds :
    /\ wf[id].Status = "completed" /\ reviews[id].approve > 0
    /\ slotPc[1] = "exit"

\* ---------------------------------------------------------------- the extractor on any reply
MaxReplyLen == 5

RECURSIVE Replies(_)
Replies(n) ==
  IF n = 0 THEN {<<>>}
  ELSE Replies(n - 1) \cup {Append(t, c) : t \in Replies(n - 1), c \in {"{", "}", "q", "x"}}

InitLenient ==
  /\ IdleServer
  /\ \E response \in Replies(MaxReplyLen) :
       fcall = [fn |-> "extractSunoProperties", in |-> response, out |-> <<>>]

\* extractSunoProperties: what the scan selects, and what is returned
ApplyLenient ==
  /\ fcall.fn = "extractSunoProperties" /\ fcall.out = <<>>
  /\ fcall' = [fcall EXCEPT !.out =
                  <<[selected |-> ScanBraces(fcall.in, 1, 0, 0),
                     result |-> extractSunoProperties(fcall.in)]>>]
  /\ FcallFrame

SpecLenient == InitLenient /\ [][ApplyLenient]_vars

\* the first "{" of a reply (0: none), and the "}" that matches it (0: none)
FirstBrace(cs) == IndexFrom(cs, "{", 1)
RECURSIVE MatchingBrace(_, _, _)
MatchingBrace(cs, i, depth) ==
  IF i > Len(cs) THEN 0
  ELSE IF cs[i] = "{" THEN MatchingBrace(cs, i + 1, depth + 1)
  ELSE IF cs[i] = "}"
    THEN IF depth = 1 THEN i ELSE MatchingBrace(cs, i + 1, depth - 1)
  ELSE MatchingBrace(cs, i + 1, depth)
Balanced(cs) ==
  IF FirstBrace(cs) = 0 THEN <<0, 0>>
  ELSE <<FirstBrace(cs), MatchingBrace(cs, FirstBrace(cs) + 1, 1)>>

\* C36: when the first "{" of a reply has its matching "}", the extractor selects
\* the text from the one to the other, whatever comes before the "{", and returns
\* its parse; when that text does not parse the extractor fails.
C36_SelectsFirstBalanced ==
  (/\ fcall.fn = "extractSunoProperties" /\ fcall.out # <<>>
   /\ Balanced(fcall.in)[2] # 0) =>
    /\ fcall.out[1].selected = Balanced(fcall.in)
    /\ fcall.out[1].result =
         StrictParse(SubSeq(fcall.in, Balanced(fcall.in)[1], Balanced(fcall.in)[2]))

\* ---------------------------------------------------------------- what an approve writes
\* the fields the pre-review stage generated, and the two set at creation
Generated(w) ==
  <<w.Lyrics, w.LyricsWithBrackets, w.SunoProperties, w.PersonaInspo,
    w.TaskDescription, w.IsPremium>>
\* positions of an accepted approve inside SubmitReview and ApproveWorkflow
ApprovePcs == {"ed_lyrics", "ed_props", "ed_persona", "save_ed", "ap_status", "ap_save"}

\* C37: no step of an accepted approve changes the generated fields or the
\* creation fields of the record.
C37_ApproveKeepsGenerated ==
  [][\A h \in Slots :
       slotPc[h] \in ApprovePcs =>
         Generated(wf'[slot[h].id]) = Generated(wf[slot[h].id])]_vars

\* ---------------------------------------------------------------- the form sent back unchanged
\* records in awaiting_review, with a weirdness inside and outside [0, 1] (in
\* tenths) and with and without a lyrics mode
ReviewRecords ==
  {[w EXCEPT !.EditedProperties =
       Ptr([Deref(w.EditedProperties) EXCEPT !.Weirdness = x, !.LyricsMode = m])] :
     w \in AwaitingRecords, x \in {0, 5, 17}, m \in {"", "custom"}}

InitUnchanged ==
  /\ IdleServer
  /\ \E w \in ReviewRecords :
       fcall = [fn |-> "SubmitReview", in |-> w, out |-> <<>>]

\* the review page is rendered for the record and its form submitted as it is
ApproveUnchanged ==
  /\ fcall.fn = "SubmitReview" /\ fcall.out = <<>>
  /\ fcall' = [fcall EXCEPT !.out = <<Reviewed(fcall.in, UnchangedForm(fcall.in))>>]
  /\ FcallFrame

SpecUnchanged == InitUnchanged /\ [][ApproveUnchanged]_vars

\* C38: after an approve with nothing edited, EditedLyrics and the five components
\* of EditedProperties are what they were, a weirdness outside [0, 1] included.
C38_UnchangedFormKeepsEdited ==
  (fcall.fn = "SubmitReview" /\ fcall.out # <<>>) =>
    /\ fcall.out[1].EditedLyrics = fcall.in.EditedLyrics
    /\ \A f \in {"Style", "VocalType", "LyricsMode", "Weirdness", "StyleInfluence"} :
         Deref(fcall.out[1].EditedProperties)[f] = Deref(fcall.in.EditedProperties)[f]

\* ---------------------------------------------------------------- the action field
\* c.PostForm("action"): "" when the form has none
Actions == {"approve", "reject", "", "Reject", "reject ", "delete"}
ActionForms == {[ApproveForm EXCEPT !.action = a] : a \in Actions}

SubmitAction ==
  \E id \in WorkflowIds, req \in ActionForms : SubmitReviewCheck(1, id, req)

\* The server followed for one submit request, whatever its action field is.
NextAction ==
  \/ Start
  \/ \E id \in WorkflowIds : PreReview(id)
  \/ SubmitAction \/ Review(1)

SpecAction == Init /\ [][NextAction]_vars /\ Fairness

\* the request has been accepted and has not yet written the Status
Deciding == slotPc[1] \in ApprovePcs \cup {"rej_status"}
Rejecting == slotPc[1] \in {"rej_status", "rej_save"}

\* C39: a submit accepted for a record in awaiting_review takes the reject branch
\* exactly when its action is "reject" and the approve branch for every other
\* action; the approve branch sets approved, the reject branch rejected, and once
\* the Status is written the record is not in awaiting_review again.
C39_OnlyRejectRejects ==
  /\ [][(slotPc[1] = "idle" /\ slotPc'[1] \notin {"idle", "exit"}) =>
          /\ wf[slot'[1].id].Status = "awaiting_review"
          /\ slotPc'[1] = IF slot'[1].req.action = "reject" THEN "rej_status"
                                                           ELSE "ed_lyrics"]_vars
  /\ \A id \in WorkflowIds :
       /\ (slotPc[1] = "ed_lyrics" /\ slot[1].id = id) ~> (wf[id].Status = "approved")
       /\ (slotPc[1] = "rej_status" /\ slot[1].id = id) ~> (wf[id].Status = "rejected")
       /\ []((InFlight(1) /\ ~Deciding /\ slot[1].id = id) =>
               wf[id].Status # "awaiting_review")

\* C39 witness: a form with an unknown action has been accepted and is being
\* written into the record as an approve
C39_Witness ==
  /\ slotPc[1] = "ed_props" /\ slot[1].req.action = "delete"
  /\ wf[slot[1].id].EditedLyrics = ApproveForm.edited_lyrics

\* ---------------------------------------------------------------- ErrorMsg and Status
\* C40: whenever a record is saved, its ErrorMsg is non-empty exactly when its
\* Status is failed.
C40_ErrorMsgIffFailed ==
  [][\A id \in WorkflowIds :
       wf'[id].UpdatedAt # wf[id].UpdatedAt =>
         (wf'[id].ErrorMsg # "" <=> wf'[id].Status = "failed")]_vars
====
